---- MODULE Spec2Model ----
(***************************************************************************)
(* The slot ledger, the archive rollups, the pruning transition and the    *)
(* metrics engine of src/db_ops.py, as a state machine over the committed  *)
(* contents of the SQLite database.                                        *)
(*                                                                         *)
(* Modelling conventions                                                   *)
(*   - a table is a function from its key to a record of its columns;      *)
(*   - SQL NULL and Python None are the value NULL; every arithmetic       *)
(*     operator below tests for it the way SQLite / Python does;           *)
(*   - a REAL reward is a natural number (the inputs are small naturals),  *)
(*     and a quotient of two of them is an exact fraction <<num, den>> in  *)
(*     lowest terms, so two averages are equal iff the rationals are;      *)
(*   - a Python dict is a function from its keys to its values.            *)
(***************************************************************************)
EXTENDS Integers, Sequences, FiniteSets, TLC

\* ------------------------------------------------------------------ bounds
\* slot numbers offered by the ingestion collaborator are 1..MaxSlot
MaxSlot == 3
\* at most MaxInserts rows are ever written to the ledger in one behaviour
MaxInserts == 3
\* at most MaxKills prune calls are interrupted (process killed) in one behaviour
MaxKills == 1

\* ------------------------------------------------------- values and inputs
\* SQL NULL / Python None (outside the range of every reward, count and id)
NULL == -2
\* the "unknown reward" sentinel of the reward computation
UNKNOWN_REWARD == -1
\* proposer_id / relay_id before a lookup succeeds
NOT_FOUND == -1

\* config/<keys_file>: the monitored validators' public keys
ConfigKeys == <<"v1">>
\* config/relay_config.json: name -> endpoint, in file order
RelayConfig == << <<"A", "urlA">> >>

\* what the ingestion collaborator may pass to insert_new_slot
SlotNumbers == 1..MaxSlot
\* <<proposer, relayer>>: the tracked validator through a configured relay, an
\* untracked proposer through it, the tracked validator with no relay attributed,
\* and a relay name that is in no configuration
Sources == {<<"v1", "A">>, <<"u1", "A">>, <<"v1", "Unknown">>, <<"v1", "X">>}
\* <<missed, empty, reward>>: a block with a reward of 1 or of 0, a missed slot
\* (no block, reward unknown), and an empty block whose reward is known
Outcomes == {<<FALSE, FALSE, 1>>, <<FALSE, FALSE, 0>>,
             <<TRUE, FALSE, UNKNOWN_REWARD>>, <<FALSE, TRUE, 1>>}
\* the reports offered: every outcome for the tracked validator through the
\* configured relay, a rewarded block or a missed slot for the other sources
Reports ==
    {<<src, o>> \in Sources \X Outcomes :
        src = <<"v1", "A">> \/ o \in {<<FALSE, FALSE, 1>>, <<TRUE, FALSE, UNKNOWN_REWARD>>}}
\* what the caller may pass to prune_db: 0..MaxKeep
MaxKeep == 1
KeepLast == 0..MaxKeep

\* ------------------------------------------------------------ arithmetic
RECURSIVE Sum(_, _)
\* the sum of f[x] over x in S
Sum(f, S) ==
    IF S = {} THEN 0
    ELSE LET x == CHOOSE y \in S : TRUE IN f[x] + Sum(f, S \ {x})

Max(S) == CHOOSE x \in S : \A y \in S : y <= x
Min(S) == CHOOSE x \in S : \A y \in S : x <= y

RECURSIVE Gcd(_, _)
Gcd(a, b) == IF b = 0 THEN a ELSE Gcd(b, a % b)

\* SQL COALESCE(x, d)
Coalesce(x, d) == IF x = NULL THEN d ELSE x

\* SQL x + y: NULL if either operand is NULL
SqlAdd(x, y) == IF x = NULL \/ y = NULL THEN NULL ELSE x + y

\* SQL x - y: NULL if either operand is NULL
SqlSub(x, y) == IF x = NULL \/ y = NULL THEN NULL ELSE x - y

\* the NULL of a REAL quotient
NullAvg == <<0, 0>>

\* SQL real division n / d: NULL if an operand is NULL or the divisor is 0,
\* otherwise the exact quotient in lowest terms (d > 0, n >= 0 here)
SqlDiv(n, d) ==
    IF n = NULL \/ d = NULL THEN NullAvg
    ELSE IF d = 0 THEN NullAvg
    ELSE LET a == IF n < 0 THEN -n ELSE n
             b == IF d < 0 THEN -d ELSE d
             g == Gcd(a, b)
             s == IF (n < 0) # (d < 0) THEN -1 ELSE 1
         IN <<s * (a \div g), b \div g>>

\* SQL SUM(col) over the rows S: NULL values are skipped, NULL if none is left
SqlSum(f, S) ==
    LET known == {x \in S : f[x] # NULL}
    IN IF known = {} THEN NULL ELSE Sum(f, known)

\* Python bool bound to an INTEGER column
BoolToInt(b) == IF b THEN 1 ELSE 0

\* ----------------------------------------------------------------- state
VARIABLES
    callers,                 \* the callers inside a check-then-create sequence: id -> [op, pc]
    q,                       \* calculate_rewards_parallel: the Queue, a sequence of tx hashes and ""
    workers,                 \* calculate_rewards_parallel: worker -> [pc, tx_hash, results]
    calc,                    \* the calculate_rewards_parallel call: [pc, transactions, results]
    cli,                     \* the read_config_update_options call: its inputs and outcome
    config,                  \* the configuration files: [keys, relay_config]
    validators,              \* table validators: set of [id, public_key]
    relayers,                \* table relayers: set of [id, name, endpoint]
    sqlite_sequence,         \* AUTOINCREMENT: the largest id ever drawn in [validators, relayers]
    val_index,               \* validators.val_index: [column, index], index: id -> its non-NULL value
    slot_sync_committee,     \* table slot_sync_committee: set of [slot_number, validator_id, participated]
    slots,                   \* table slots: number -> row
    tables,                  \* which lazily created tables exist
    archive_relayer_slots,   \* relay_id -> [total_slots, total_rewards, total_unknown_slots]
    archive_validator_slots, \* <<validator_id, relay_id>> -> rollup row
    last,                    \* the most recent call: [op, raised]
    written,                 \* history: number -> sequence of the rows written under it
    relFolds,                \* history: number -> times a row of it was added to the relayer rollup
    valFolds,                \* history: number -> times a row of it was added to the validator rollup
    kills,                   \* history: number of interrupted prune calls
    running                  \* the prune_db call another process is inside of, if any

vars == <<callers, q, workers, calc, cli, config, validators, relayers, sqlite_sequence, val_index, slot_sync_committee,
          slots, tables, archive_relayer_slots,
          archive_validator_slots, last, written, relFolds, valFolds, kills,
          running>>

ArchiveTables == {"archive_relayer_slots", "archive_validator_slots"}

\* read_config_update_options has not been called
NoCall == [ended |-> "not called"]

\* nobody is inside archive_exists/create_archive_db or
\* sync_committee_table_exists/create_sync_committee_table
NoCallers == << >>

\* calculate_rewards_parallel has not been called
NotCalculating == [pc |-> "not called"]

\* create_db: the validators table has no val_index column
NoIndexColumn == [column |-> FALSE, index |-> << >>]

\* no prune_db call is running
NotRunning ==
    [pc |-> "idle", last_slots |-> 0, cutoff |-> 0, inserted |-> {},
     before |-> [slots |-> << >>, archive_relayer_slots |-> << >>,
                 archive_validator_slots |-> << >>, tables |-> {}]]

\* ------------------------------------------------------------ registries
\* A registry table inside one call is [rows, seq]: the rows, committed or
\* pending, and the table's entry in sqlite_sequence.

validator_exists(vals, pub_key) == \E v \in vals : v.public_key = pub_key

\* INSERT OR IGNORE INTO validators(public_key): the id is drawn before the
\* UNIQUE(public_key) conflict is found, so an ignored insert still uses one up
InsertOrIgnoreValidator(t, pub_key) ==
    [rows |-> IF validator_exists(t.rows, pub_key) THEN t.rows
              ELSE t.rows \cup {[id |-> t.seq + 1, public_key |-> pub_key]},
     seq  |-> t.seq + 1]

RECURSIVE InsertKeys(_, _, _, _)
\* the loop of insert_validators over keys[i..]; validator_exists opens its own
\* connection and so reads the committed rows, not the pending ones
InsertKeys(committed, t, keys, i) ==
    IF i > Len(keys) THEN t
    ELSE IF validator_exists(committed, keys[i]) THEN InsertKeys(committed, t, keys, i + 1)
    ELSE InsertKeys(committed, InsertOrIgnoreValidator(t, keys[i]), keys, i + 1)

insert_validators(vals, seq) == InsertKeys(vals, [rows |-> vals, seq |-> seq], config.keys, 1)

relayer_exists(rels, endpoint) == \E r \in rels : r.endpoint = endpoint

\* INSERT OR IGNORE INTO relayers(name, endpoint), UNIQUE(endpoint)
InsertOrIgnoreRelayer(t, name, endpoint) ==
    [rows |-> IF relayer_exists(t.rows, endpoint) THEN t.rows
              ELSE t.rows \cup {[id |-> t.seq + 1, name |-> name, endpoint |-> endpoint]},
     seq  |-> t.seq + 1]

\* an INSERT INTO relayers that neither relayer_exists nor the UNIQUE(endpoint)
\* conflict handling keeps back
EnsureRelayer_AlwaysInserts(committed, t, name, endpoint) ==
    [rows |-> t.rows \cup {[id |-> t.seq + 1, name |-> name, endpoint |-> endpoint]},
     seq  |-> t.seq + 1]

\* `if not relayer_exists(endpoint): INSERT OR IGNORE ...`; relayer_exists opens
\* its own connection and so reads the committed rows, not the pending ones
EnsureRelayer(committed, t, name, endpoint) ==
    IF relayer_exists(committed, endpoint) THEN t
    ELSE InsertOrIgnoreRelayer(t, name, endpoint)

RECURSIVE InsertRelayConfig(_, _, _, _)
\* the loop of insert_relayers over the items of the relay configuration
InsertRelayConfig(committed, t, cfg, i) ==
    IF i > Len(cfg) THEN t
    ELSE InsertRelayConfig(committed, EnsureRelayer(committed, t, cfg[i][1], cfg[i][2]),
                           cfg, i + 1)

insert_relayers(rels, seq) ==
    EnsureRelayer(rels,
                  InsertRelayConfig(rels, [rows |-> rels, seq |-> seq], config.relay_config, 1),
                  "Unknown", "N/A")

\* the id of the first row of `SELECT id FROM T WHERE <match>`, or NOT_FOUND
FirstId(rows) == IF rows = {} THEN NOT_FOUND ELSE Min({r.id : r \in rows})

\* the name of the relayer with id rid
RelayName(rid) == (CHOOSE r \in relayers : r.id = rid).name

\* the public key of the validator with id vid
PublicKey(vid) == (CHOOSE v \in validators : v.id = vid).public_key

\* the row of insert_new_slot without its `if reward == -1: reward = None`
SlotRow_KeepSentinel(proposer_id, proposer, relay_id, missed, empty, reward) ==
    [proposer_id     |-> IF proposer_id = NOT_FOUND THEN NULL ELSE proposer_id,
     proposer_pubkey |-> IF proposer_id = NOT_FOUND THEN proposer ELSE "",
     relay_id        |-> relay_id,
     missed          |-> BoolToInt(missed),
     empty           |-> BoolToInt(empty),
     reward          |-> reward]

\* ----------------------------------------------------------- slot ledger
\* the row insert_new_slot binds to its INSERT
SlotRow(proposer_id, proposer, relay_id, missed, empty, reward) ==
    [proposer_id     |-> IF proposer_id = NOT_FOUND THEN NULL ELSE proposer_id,
     proposer_pubkey |-> IF proposer_id = NOT_FOUND THEN proposer ELSE "",
     relay_id        |-> relay_id,
     missed          |-> BoolToInt(missed),
     empty           |-> BoolToInt(empty),
     reward          |-> IF reward = UNKNOWN_REWARD THEN NULL ELSE reward]

\* INSERT OR REPLACE INTO slots, what the statement of insert_new_slot is not:
\* the row given takes the place of a row whose number is present
InsertOrReplace(sl, number, row) ==
    [n \in DOMAIN sl \cup {number} |-> IF n = number THEN row ELSE sl[n]]

\* INSERT OR IGNORE INTO slots: a row whose number is present is left alone
InsertOrIgnore(sl, number, row) ==
    IF number \in DOMAIN sl THEN sl
    ELSE [n \in DOMAIN sl \cup {number} |-> IF n = number THEN row ELSE sl[n]]

\* the number of rows ever written to the ledger
TotalWritten == Sum([n \in SlotNumbers |-> Len(written[n])], SlotNumbers)

\* insert_new_slot without its `if relay_id == -1` check
RelayNotFound_Never(relay_id) == FALSE

\* `if relay_id == -1: raise Exception(...)`
RelayNotFound(relay_id) == relay_id = NOT_FOUND

insert_new_slot(slot_number, proposer, relayer, missed, empty, reward) ==
    LET proposer_id == FirstId({v \in validators : v.public_key = proposer})
        relay_id    == FirstId({r \in relayers : r.name = relayer})
        row         == SlotRow(proposer_id, proposer, relay_id, missed, empty, reward)
        existed     == slot_number \in DOMAIN slots
        call(raised) ==
            [op |-> "insert_new_slot", raised |-> raised, existed |-> existed,
             differs |-> existed /\ slots[slot_number] # row]
    IN IF RelayNotFound(relay_id)
       THEN /\ last' = call("Exception")
            /\ UNCHANGED <<callers, q, workers, calc, cli, config, validators, relayers, sqlite_sequence, val_index,
                   slot_sync_committee, slots, tables, archive_relayer_slots,
                           archive_validator_slots, written, relFolds, valFolds, kills>>
       ELSE /\ ~existed => TotalWritten < MaxInserts
            /\ slots' = InsertOrIgnore(slots, slot_number, row)
            /\ written' = IF slots' # slots
                          THEN [written EXCEPT ![slot_number] = Append(@, slots'[slot_number])]
                          ELSE written
            /\ last' = call("none")
            /\ UNCHANGED <<callers, q, workers, calc, cli, config, validators, relayers, sqlite_sequence, val_index,
                   slot_sync_committee, tables, archive_relayer_slots,
                           archive_validator_slots, relFolds, valFolds, kills>>

\* ------------------------------------------------------- archive tables
archive_exists(tbl) == Cardinality(tbl \cap ArchiveTables) = 2

\* create_archive_db: two CREATE TABLE statements, each durable once executed;
\* CREATE TABLE of a table that exists raises sqlite3.OperationalError
create_archive_db(tbl) ==
    IF "archive_relayer_slots" \in tbl
    THEN [tables |-> tbl, raised |-> "OperationalError"]
    ELSE IF "archive_validator_slots" \in tbl
    THEN [tables |-> tbl \cup {"archive_relayer_slots"}, raised |-> "OperationalError"]
    ELSE [tables |-> tbl \cup ArchiveTables, raised |-> "none"]

\* ------------------------------------------------------------------ prune
\* the rows of `FROM slots s JOIN validators v ON s.proposer_id = v.id`
JoinValidators(sl) ==
    {n \in DOMAIN sl : \E v \in validators : v.id = sl[n].proposer_id}

\* the rows of `FROM slots s JOIN relayers r ON s.relay_id = r.id`
JoinRelayers(sl) ==
    {n \in DOMAIN sl : \E r \in relayers : r.id = sl[n].relay_id}

\* the rows of `WHERE number < cutoff`
\* a cutoff that takes the row at the cutoff as well
BelowCutoff_Inclusive(sl, cutoff) == {n \in DOMAIN sl : n <= cutoff}

BelowCutoff(sl, cutoff) == {n \in DOMAIN sl : n < cutoff}

\* a COUNT(*) ... GROUP BY result read into result_dict: absent group -> None
CountOrNull(S) == IF S = {} THEN NULL ELSE Cardinality(S)

\* result_dict of the four per-(validator, relay) groupings, as the `values` lists
ValidatorDelta(sl, cutoff) ==
    LET rows == JoinValidators(sl) \cap BelowCutoff(sl, cutoff)
        keys == {<<sl[n].proposer_id, sl[n].relay_id>> : n \in rows}
        grp(k) == {n \in rows : <<sl[n].proposer_id, sl[n].relay_id>> = k}
    IN [k \in keys |->
          [total_slots          |-> CountOrNull(grp(k)),
           total_rewards        |-> SqlSum([n \in grp(k) |-> sl[n].reward], grp(k)),
           total_missed         |-> CountOrNull({n \in grp(k) : sl[n].missed = 1}),
           total_empty          |-> CountOrNull({n \in grp(k) : sl[n].empty = 1}),
           total_unknown_reward |-> CountOrNull({n \in grp(k) : sl[n].reward = NULL})]]

\* existing + incoming of one column in ON CONFLICT DO UPDATE
Merge(existing, incoming) == Coalesce(existing, 0) + Coalesce(incoming, 0)

\* INSERT INTO archive_validator_slots ... ON CONFLICT (validator_id, relay_id) DO UPDATE
UpsertValidatorRollup(av, delta) ==
    [k \in DOMAIN av \cup DOMAIN delta |->
        IF k \notin DOMAIN delta THEN av[k]
        ELSE IF k \notin DOMAIN av THEN delta[k]
        ELSE [total_slots          |-> Merge(av[k].total_slots, delta[k].total_slots),
              total_rewards        |-> Merge(av[k].total_rewards, delta[k].total_rewards),
              total_missed         |-> Merge(av[k].total_missed, delta[k].total_missed),
              total_empty          |-> Merge(av[k].total_empty, delta[k].total_empty),
              total_unknown_reward |-> Merge(av[k].total_unknown_reward,
                                             delta[k].total_unknown_reward)]]

\* result_dict of the two per-relay groupings, as the `values` lists
RelayerDelta(sl, cutoff) ==
    LET rows == BelowCutoff(sl, cutoff)
        keys == {sl[n].relay_id : n \in rows}
        known(k) == {n \in rows : sl[n].relay_id = k /\ sl[n].reward # NULL}
        unknown(k) == {n \in rows : sl[n].relay_id = k /\ sl[n].reward = NULL}
    IN [k \in keys |->
          [total_slots         |-> CountOrNull(known(k)),
           total_rewards       |-> SqlSum([n \in known(k) |-> sl[n].reward], known(k)),
           total_unknown_slots |-> CountOrNull(unknown(k))]]

\* INSERT INTO archive_relayer_slots ... ON CONFLICT(relay_id) DO UPDATE
UpsertRelayerRollup(ar, delta) ==
    [k \in DOMAIN ar \cup DOMAIN delta |->
        IF k \notin DOMAIN delta THEN ar[k]
        ELSE IF k \notin DOMAIN ar THEN delta[k]
        ELSE [total_slots         |-> Merge(ar[k].total_slots, delta[k].total_slots),
              total_rewards       |-> Merge(ar[k].total_rewards, delta[k].total_rewards),
              total_unknown_slots |-> Merge(ar[k].total_unknown_slots,
                                            delta[k].total_unknown_slots)]]

\* prune_db without its DELETE FROM slots: the rows below the cutoff stay
DeleteBelow_KeepsRows(sl, cutoff) == sl

\* DELETE FROM slots WHERE number < cutoff
DeleteBelow(sl, cutoff) == [n \in DOMAIN sl \ BelowCutoff(sl, cutoff) |-> sl[n]]

\* the statements of prune_db that were committed when the call ended
PruneStops == {"returned", "killed_after_validator_commit", "killed_after_relayer_commit"}

\* prune_db(last_slots) on the database (sl, ar, av, tbl), run up to `stop`:
\* the database it leaves, what it raised, and the rows it added to each rollup
prune_db(sl, ar, av, tbl, last_slots, stop) ==
    LET created == IF archive_exists(tbl) THEN [tables |-> tbl, raised |-> "none"]
                   ELSE create_archive_db(tbl)
        same(t, raised) ==
            [slots |-> sl, archive_relayer_slots |-> ar, archive_validator_slots |-> av,
             tables |-> t, raised |-> raised, relFolded |-> {}, valFolded |-> {},
             pruned |-> FALSE]
    IN IF created.raised # "none" THEN same(created.tables, created.raised)
       ELSE IF DOMAIN sl = {} THEN same(created.tables, "TypeError")
       ELSE LET cutoff == Max(DOMAIN sl) - last_slots
                below  == BelowCutoff(sl, cutoff)
                av1    == UpsertValidatorRollup(av, ValidatorDelta(sl, cutoff))
                ar1    == UpsertRelayerRollup(ar, RelayerDelta(sl, cutoff))
            IN IF Cardinality(below) < 1 THEN same(created.tables, "none")
               ELSE [slots |-> IF stop = "returned" THEN DeleteBelow(sl, cutoff) ELSE sl,
                     archive_relayer_slots |->
                         IF stop = "killed_after_validator_commit" THEN ar ELSE ar1,
                     archive_validator_slots |-> av1,
                     tables |-> created.tables,
                     raised |-> IF stop = "returned" THEN "none" ELSE "killed",
                     relFolded |->
                         IF stop = "killed_after_validator_commit" THEN {} ELSE below,
                     valFolded |-> JoinValidators(sl) \cap below,
                     pruned |-> TRUE]

\* a call of prune_db(last_slots) that ends at `stop`
PruneStep(last_slots, stop) ==
    LET res == prune_db(slots, archive_relayer_slots, archive_validator_slots, tables,
                        last_slots, stop)
    IN /\ slots' = res.slots
       /\ archive_relayer_slots' = res.archive_relayer_slots
       /\ archive_validator_slots' = res.archive_validator_slots
       /\ tables' = res.tables
       /\ last' = [op |-> "prune_db", raised |-> res.raised, last_slots |-> last_slots,
                   pruned |-> res.pruned,
                   again |-> /\ last.op = "prune_db"
                             /\ last.raised # "killed"
                             /\ last.last_slots = last_slots,
                   after_pruning |-> last.op = "prune_db" /\ last.pruned]
       /\ relFolds' = [n \in SlotNumbers |->
                         relFolds[n] + IF n \in res.relFolded THEN 1 ELSE 0]
       /\ valFolds' = [n \in SlotNumbers |->
                         valFolds[n] + IF n \in res.valFolded THEN 1 ELSE 0]
       /\ UNCHANGED <<q, workers, calc, cli, config, validators, relayers, sqlite_sequence, val_index,
                   slot_sync_committee, written>>

\* prune_db(last_slots) runs to its end (or to the exception it raises)
PruneDb(last_slots) ==
    /\ PruneStep(last_slots, "returned")
    /\ UNCHANGED <<callers, kills, running>>

\* the process is killed inside prune_db(last_slots), after one of its first two
\* commits and before its last one
PruneDbKilled(last_slots, stop) ==
    /\ kills < MaxKills
    /\ stop # "returned"
    /\ prune_db(slots, archive_relayer_slots, archive_validator_slots, tables,
                last_slots, stop).pruned
    /\ PruneStep(last_slots, stop)
    /\ kills' = kills + 1
    /\ UNCHANGED <<callers, running>>

\* --------------------------------------------------------- live queries
\* execute_query_dict over `SELECT key, COUNT(*) ... GROUP BY key`: key maps
\* each selected row to its group
CountBy(key) ==
    [k \in {key[n] : n \in DOMAIN key} |-> Cardinality({n \in DOMAIN key : key[n] = k})]

\* execute_query_dict over `SELECT key, SUM(col) ... GROUP BY key`
SumBy(key, col) ==
    [k \in {key[n] : n \in DOMAIN key} |-> SqlSum(col, {n \in DOMAIN key : key[n] = k})]

\* execute_query_dict over `SELECT key, AVG(col) ... GROUP BY key`
AvgBy(key, col) ==
    [k \in {key[n] : n \in DOMAIN key} |->
        LET grp == {n \in DOMAIN key : key[n] = k /\ col[n] # NULL}
        IN SqlDiv(SqlSum(col, grp), Cardinality(grp))]

\* the count of a relay taken over the slots of every proposer
get_relay_blocks_proposed_AllProposers(sl) ==
    LET rows == JoinRelayers(sl)
    IN CountBy([n \in rows |-> RelayName(sl[n].relay_id)])

get_relay_blocks_proposed(sl) ==
    LET rows == JoinValidators(sl) \cap JoinRelayers(sl)
    IN CountBy([n \in rows |-> RelayName(sl[n].relay_id)])

get_validator_blocks_proposed(sl) ==
    LET rows == JoinValidators(sl)
    IN CountBy([n \in rows |-> PublicKey(sl[n].proposer_id)])

get_missed_block_proposals(sl) ==
    LET rows == {n \in JoinValidators(sl) : sl[n].missed = 1}
    IN CountBy([n \in rows |-> PublicKey(sl[n].proposer_id)])

get_empty_block_proposals(sl) ==
    LET rows == {n \in JoinValidators(sl) : sl[n].empty = 1}
    IN CountBy([n \in rows |-> PublicKey(sl[n].proposer_id)])

get_total_relay_blocks_proposed(sl) ==
    LET rows == JoinRelayers(sl)
    IN CountBy([n \in rows |-> RelayName(sl[n].relay_id)])

get_relay_total_rewards(sl) ==
    LET rows == JoinRelayers(sl)
    IN SumBy([n \in rows |-> RelayName(sl[n].relay_id)],
            [n \in rows |-> sl[n].reward])

get_avg_relay_rewards(sl) ==
    LET rows == {n \in JoinRelayers(sl) :
                    sl[n].missed = 0 /\ sl[n].empty = 0 /\ sl[n].reward # NULL}
    IN AvgBy([n \in rows |-> RelayName(sl[n].relay_id)],
            [n \in rows |-> sl[n].reward])

get_unknown_reward_blocks(sl) ==
    LET rows == {n \in JoinRelayers(sl) : sl[n].reward = NULL}
    IN CountBy([n \in rows |-> RelayName(sl[n].relay_id)])

get_total_validator_rewards(sl) ==
    LET rows == {n \in JoinRelayers(sl) \cap JoinValidators(sl) : sl[n].reward # NULL}
    IN SumBy([n \in rows |-> RelayName(sl[n].relay_id)],
            [n \in rows |-> sl[n].reward])

get_avg_validator_rewards(sl) ==
    LET rows == {n \in JoinRelayers(sl) \cap JoinValidators(sl) : sl[n].reward # NULL}
    IN AvgBy([n \in rows |-> RelayName(sl[n].relay_id)],
            [n \in rows |-> sl[n].reward])

get_validator_unknown_reward_blocks(sl) ==
    LET rows == {n \in JoinRelayers(sl) \cap JoinValidators(sl) : sl[n].reward = NULL}
    IN CountBy([n \in rows |-> RelayName(sl[n].relay_id)])

\* ------------------------------------------------------ archive queries
\* the rollup rows of `FROM archive_... s JOIN relayers r ON s.relay_id = r.id`
\* (relayer names are distinct in the registries modelled, so a name is one group)
ArJoinRelayers(ar) == {k \in DOMAIN ar : \E r \in relayers : r.id = k}
AvJoinRelayers(av) == {k \in DOMAIN av : \E r \in relayers : r.id = k[2]}
AvJoinValidators(av) == {k \in DOMAIN av : \E v \in validators : v.id = k[1]}

archive_get_relay_blocks_proposed(av) ==
    LET rows == AvJoinRelayers(av)
    IN SumBy([k \in rows |-> RelayName(k[2])],
            [k \in rows |-> av[k].total_slots])

archive_get_validator_blocks_proposed(av) ==
    LET rows == AvJoinValidators(av)
    IN SumBy([k \in rows |-> PublicKey(k[1])],
            [k \in rows |-> av[k].total_slots])

archive_get_missed_block_proposals(av) ==
    LET rows == {k \in AvJoinValidators(av) : av[k].total_missed # NULL}
    IN SumBy([k \in rows |-> PublicKey(k[1])],
            [k \in rows |-> av[k].total_missed])

archive_get_empty_block_proposals(av) ==
    LET rows == {k \in AvJoinValidators(av) : av[k].total_empty # NULL}
    IN SumBy([k \in rows |-> PublicKey(k[1])],
            [k \in rows |-> av[k].total_empty])

archive_get_total_relay_blocks_proposed(ar) ==
    [name \in {RelayName(k) : k \in ArJoinRelayers(ar)} |->
        LET k == CHOOSE j \in ArJoinRelayers(ar) : RelayName(j) = name
        IN SqlAdd(ar[k].total_slots, Coalesce(ar[k].total_unknown_slots, 0))]

archive_get_relay_total_rewards(ar) ==
    [name \in {RelayName(k) : k \in ArJoinRelayers(ar)} |->
        LET k == CHOOSE j \in ArJoinRelayers(ar) : RelayName(j) = name
        IN ar[k].total_rewards]

\* the live slots the average of the relay k takes in
LiveRewarded(sl, k) ==
    {n \in DOMAIN sl : /\ sl[n].relay_id = k
                       /\ sl[n].missed = 0
                       /\ sl[n].empty = 0
                       /\ sl[n].reward # NULL}

\* an inner join: the rollup rows that have a live rewarded slot
RollupJoinSlots_Inner(ar, sl) == {k \in ArJoinRelayers(ar) : LiveRewarded(sl, k) # {}}

\* `archive_relayer_slots a_s JOIN relayers r LEFT JOIN slots s`: every rollup
\* row of a relayer, with or without live slots
RollupJoinSlots(ar, sl) == ArJoinRelayers(ar)

\* the rollup row of a relay LEFT JOINed to its live rewarded slots
archive_get_avg_relay_rewards(ar, sl) ==
    [name \in {RelayName(k) : k \in RollupJoinSlots(ar, sl)} |->
        LET k == CHOOSE j \in RollupJoinSlots(ar, sl) : RelayName(j) = name
            live == LiveRewarded(sl, k)
        IN SqlDiv(SqlAdd(ar[k].total_rewards,
                         Coalesce(SqlSum([n \in live |-> sl[n].reward], live), 0)),
                  SqlAdd(ar[k].total_slots, Cardinality(live)))]

archive_get_unknown_reward_blocks(ar) ==
    [name \in {RelayName(k) : k \in {j \in ArJoinRelayers(ar) :
                                        ar[j].total_unknown_slots # NULL}} |->
        LET k == CHOOSE j \in ArJoinRelayers(ar) : RelayName(j) = name
        IN ar[k].total_unknown_slots]

archive_get_total_validator_rewards(av) ==
    LET rows == {k \in AvJoinRelayers(av) : av[k].total_rewards # NULL}
    IN SumBy([k \in rows |-> RelayName(k[2])],
            [k \in rows |-> av[k].total_rewards])

\* the UNION ALL of the rollup rows with a total reward and the live rewarded
\* slots of tracked validators, grouped by relay
archive_get_avg_validator_rewards(av, sl) ==
    LET arch == {k \in DOMAIN av : av[k].total_rewards # NULL}
        live == {n \in JoinValidators(sl) :
                    sl[n].reward # NULL /\ sl[n].missed = 0 /\ sl[n].empty = 0}
        ids  == {k[2] : k \in arch} \cup {sl[n].relay_id : n \in live}
        a(i) == {k \in arch : k[2] = i}
        l(i) == {n \in live : sl[n].relay_id = i}
        rewards(i) == Sum([k \in a(i) |-> av[k].total_rewards], a(i))
                        + Sum([n \in l(i) |-> sl[n].reward], l(i))
        counted(k) == SqlSub(av[k].total_slots, Coalesce(av[k].total_unknown_reward, 0))
        counts(i) ==
            IF l(i) = {} /\ \A k \in a(i) : counted(k) = NULL THEN NULL
            ELSE Sum([k \in a(i) |-> Coalesce(counted(k), 0)], a(i)) + Cardinality(l(i))
    IN [name \in {RelayName(i) : i \in {j \in ids : \E r \in relayers : r.id = j}} |->
          LET i == CHOOSE j \in ids : (\E r \in relayers : r.id = j) /\ RelayName(j) = name
          IN SqlDiv(rewards(i), counts(i))]

archive_get_validator_unknown_reward_blocks(av) ==
    LET rows == {k \in AvJoinRelayers(av) : av[k].total_unknown_reward # NULL}
    IN SumBy([k \in rows |-> RelayName(k[2])],
            [k \in rows |-> av[k].total_unknown_reward])

\* ---------------------------------------------------------- combination
\* `combined_dict[key] += value` raises TypeError when an operand is None
JoinRaises(reg_dict, archive_dict, avg) ==
    /\ ~avg
    /\ \E key \in DOMAIN reg_dict \cap DOMAIN archive_dict :
          archive_dict[key] = NULL \/ reg_dict[key] = NULL

join_archive_queries(reg_dict, archive_dict, avg) ==
    [key \in DOMAIN archive_dict \cup DOMAIN reg_dict |->
        IF key \notin DOMAIN reg_dict THEN archive_dict[key]
        ELSE IF key \notin DOMAIN archive_dict THEN reg_dict[key]
        ELSE IF avg THEN archive_dict[key]
        ELSE archive_dict[key] + reg_dict[key]]

\* the names of the eleven metrics, in the order get_metrics_from_db fills them
MetricNames ==
    <<"RelayBlocksProposed", "TotalRelayBlocksProposed", "RelayTotalRewards",
      "AvgRelayerRewards", "UnknownRewardsBlocks", "ValidatorBlocksProposed",
      "MissedBlockProposals", "EmptyBlockProposals", "TotalValidatorRewards",
      "AvgValidatorRewards", "ValUnknownRewardBlocks">>

AvgMetrics == {"AvgRelayerRewards", "AvgValidatorRewards"}

\* the live query behind each metric
LiveQuery(sl) ==
    [RelayBlocksProposed      |-> get_relay_blocks_proposed(sl),
     TotalRelayBlocksProposed |-> get_total_relay_blocks_proposed(sl),
     RelayTotalRewards        |-> get_relay_total_rewards(sl),
     AvgRelayerRewards        |-> get_avg_relay_rewards(sl),
     UnknownRewardsBlocks     |-> get_unknown_reward_blocks(sl),
     ValidatorBlocksProposed  |-> get_validator_blocks_proposed(sl),
     MissedBlockProposals     |-> get_missed_block_proposals(sl),
     EmptyBlockProposals      |-> get_empty_block_proposals(sl),
     TotalValidatorRewards    |-> get_total_validator_rewards(sl),
     AvgValidatorRewards      |-> get_avg_validator_rewards(sl),
     ValUnknownRewardBlocks   |-> get_validator_unknown_reward_blocks(sl)]

\* the archive query behind each metric
ArchiveQuery(sl, ar, av) ==
    [RelayBlocksProposed      |-> archive_get_relay_blocks_proposed(av),
     TotalRelayBlocksProposed |-> archive_get_total_relay_blocks_proposed(ar),
     RelayTotalRewards        |-> archive_get_relay_total_rewards(ar),
     AvgRelayerRewards        |-> archive_get_avg_relay_rewards(ar, sl),
     UnknownRewardsBlocks     |-> archive_get_unknown_reward_blocks(ar),
     ValidatorBlocksProposed  |-> archive_get_validator_blocks_proposed(av),
     MissedBlockProposals     |-> archive_get_missed_block_proposals(av),
     EmptyBlockProposals      |-> archive_get_empty_block_proposals(av),
     TotalValidatorRewards    |-> archive_get_total_validator_rewards(av),
     AvgValidatorRewards      |-> archive_get_avg_validator_rewards(av, sl),
     ValUnknownRewardBlocks   |-> archive_get_validator_unknown_reward_blocks(av)]

\* one line of get_metrics_from_db: what computing the metric m raised and, when
\* it returned, the map
MetricOf(m, sl, ar, av, tbl) ==
    LET live == LiveQuery(sl)[m]
        arch == ArchiveQuery(sl, ar, av)[m]
    IN IF ~archive_exists(tbl) THEN [raised |-> "none", map |-> live]
       ELSE IF JoinRaises(live, arch, m \in AvgMetrics) THEN [raised |-> "TypeError"]
       ELSE [raised |-> "none", map |-> join_archive_queries(live, arch, m \in AvgMetrics)]

\* get_metrics_from_db on the database (sl, ar, av, tbl): what it raised and,
\* when it returned, the eleven maps
get_metrics_from_db(sl, ar, av, tbl) ==
    LET names == {MetricNames[i] : i \in 1..Len(MetricNames)}
        live  == LiveQuery(sl)
        arch  == ArchiveQuery(sl, ar, av)
    IN IF ~archive_exists(tbl)
       THEN [raised |-> "none", metrics |-> [m \in names |-> live[m]]]
       ELSE IF \E m \in names : JoinRaises(live[m], arch[m], m \in AvgMetrics)
       THEN [raised |-> "TypeError"]
       ELSE [raised |-> "none",
             metrics |-> [m \in names |->
                            join_archive_queries(live[m], arch[m], m \in AvgMetrics)]]

\* ------------------------------------------------------------------ init
\* the database after initialise_db(): create_db, insert_validators, insert_relayers
Init ==
    /\ config = [keys |-> ConfigKeys, relay_config |-> RelayConfig]
    /\ validators = insert_validators({}, 0).rows
    /\ relayers = insert_relayers({}, 0).rows
    /\ sqlite_sequence = [validators |-> insert_validators({}, 0).seq,
                          relayers   |-> insert_relayers({}, 0).seq]
    /\ cli = NoCall
    /\ val_index = NoIndexColumn
    /\ slot_sync_committee = {}
    /\ slots = << >>
    /\ tables = {}
    /\ archive_relayer_slots = << >>
    /\ archive_validator_slots = << >>
    /\ last = [op |-> "initialise_db", raised |-> "none"]
    /\ written = [n \in SlotNumbers |-> << >>]
    /\ relFolds = [n \in SlotNumbers |-> 0]
    /\ valFolds = [n \in SlotNumbers |-> 0]
    /\ kills = 0
    /\ callers = NoCallers
    /\ q = << >>
    /\ workers = << >>
    /\ calc = NotCalculating
    /\ running = NotRunning

InsertNewSlot ==
    /\ \E n \in SlotNumbers, rep \in Reports :
          insert_new_slot(n, rep[1][1], rep[1][2], rep[2][1], rep[2][2], rep[2][3])
    /\ UNCHANGED running

Prune == \E k \in KeepLast : PruneDb(k)

PruneKilled == \E k \in KeepLast, stop \in PruneStops : PruneDbKilled(k, stop)

\* every call runs to its end
Next == InsertNewSlot \/ Prune

\* calls, and prune calls cut short by the death of the process
NextKilled == InsertNewSlot \/ Prune \/ PruneKilled

Spec == Init /\ [][Next]_vars

SpecKilled == Init /\ [][NextKilled]_vars

\* ===================================================================== claims
\* the names in the relayer registry
RelayerNames == {r.name : r \in relayers}

\* the metrics engine on the current database
Metrics ==
    get_metrics_from_db(slots, archive_relayer_slots, archive_validator_slots, tables)

\* the metrics engine on the database a step leaves
MetricsAfter ==
    get_metrics_from_db(slots', archive_relayer_slots', archive_validator_slots', tables')

\* the value a relay-keyed map reports for a name: a missing key reads as 0
\* (populate_data_obj fills it in)
Reported(map, name) == IF name \in DOMAIN map THEN map[name] ELSE 0

\* the number of rows ever written to the ledger for the relay called name
InsertedFor(name) ==
    Sum([n \in SlotNumbers |->
            Cardinality({i \in 1..Len(written[n]) :
                            RelayName(written[n][i].relay_id) = name})],
        SlotNumbers)

\* no slot number was written to the ledger twice
DistinctSlots == \A n \in SlotNumbers : Len(written[n]) <= 1

\* the ledger and both rollups are as the step found them
LedgerAndRollupsUnchanged ==
    /\ slots' = slots
    /\ archive_relayer_slots' = archive_relayer_slots
    /\ archive_validator_slots' = archive_validator_slots

\* C1 (as claimed): with distinct slot numbers inserted and any prunes in between,
\* the metrics engine computes TotalRelayBlocksProposed, and its value for every
\* relay equals the number of slots inserted for that relay.
C1_NoDoubleCounting ==
    DistinctSlots =>
        LET total == MetricOf("TotalRelayBlocksProposed", slots, archive_relayer_slots,
                              archive_validator_slots, tables)
        IN /\ total.raised = "none"
           /\ \A name \in RelayerNames : Reported(total.map, name) = InsertedFor(name)

\* C2 (as claimed): the metrics computed right after a prune_db call equal the
\* metrics computed right before it.
C2_PrunePreservesMetrics ==
    [][(\E k \in KeepLast : PruneDb(k)) => MetricsAfter = Metrics]_vars

\* C3 (as claimed): in no committed state has a row that is still in the ledger
\* been added to a rollup, and no row is ever added to a rollup twice: a slot
\* number was added to each rollup at most once per row written under it, not
\* counting the row that is resident.
C3_PruneAtomic ==
    \A n \in SlotNumbers :
        LET gone == Len(written[n]) - (IF n \in DOMAIN slots THEN 1 ELSE 0)
        IN relFolds[n] <= gone /\ valFolds[n] <= gone

\* C4 (as claimed): a prune_db call that ends with an error leaves the ledger,
\* both rollups and the set of existing archive tables as it found them.
C4_FailedPruneChangesNothing ==
    [][\A k \in KeepLast, stop \in PruneStops :
          (PruneStep(k, stop) /\ last'.raised # "none") =>
              (LedgerAndRollupsUnchanged /\ tables' = tables)]_vars

\* C5: a prune_db(n) call that directly follows a prune_db(n) call leaves the
\* ledger and both rollups as it found them.
C5_PruneIdempotent ==
    [][\A k \in KeepLast :
          (/\ PruneDb(k)
           /\ last.op = "prune_db"
           /\ last.raised # "killed"
           /\ last.last_slots = k) => LedgerAndRollupsUnchanged]_vars

\* C5 witness: a second prune_db(n) in a row has run, after a first one that
\* moved rows to the rollups and left rows in the ledger.
C5_Witness ==
    /\ last.op = "prune_db"
    /\ last.again
    /\ last.after_pruning
    /\ DOMAIN slots # {}
    /\ DOMAIN archive_relayer_slots # {}

\* prune_db(k) finds no row below its cutoff
NothingToPrune(k) ==
    \/ DOMAIN slots = {}
    \/ BelowCutoff(slots, Max(DOMAIN slots) - k) = {}

\* C6 (as claimed): prune_db returns normally and changes neither the ledger nor
\* the rollups when the ledger is empty or holds no row below the cutoff.
C6_PruneNoopWhenNothingBelow ==
    [][\A k \in KeepLast :
          (PruneDb(k) /\ NothingToPrune(k)) =>
              (last'.raised = "none" /\ LedgerAndRollupsUnchanged)]_vars

\* a call insert_new_slot(n, ...) with the report rep
InsertReport(n, rep) ==
    insert_new_slot(n, rep[1][1], rep[1][2], rep[2][1], rep[2][2], rep[2][3])

\* C7 (as claimed): insert_new_slot of a number that is in the ledger leaves the
\* ledger as it was and raises nothing, whatever the other arguments are.
C7_ReinsertSilentNoop ==
    [][\A n \in SlotNumbers, rep \in Reports :
          (InsertReport(n, rep) /\ n \in DOMAIN slots) =>
              (slots' = slots /\ last'.raised = "none")]_vars

\* C7 (amended): insert_new_slot of a number that is in the ledger leaves the
\* ledger as it was, whatever the other arguments are, and raises nothing when
\* the relay name it is given is in the relayer registry.
C7_ReinsertNoOverwrite ==
    [][\A n \in SlotNumbers, rep \in Reports :
          (InsertReport(n, rep) /\ n \in DOMAIN slots) =>
              /\ slots' = slots
              /\ rep[1][2] \in RelayerNames => last'.raised = "none"]_vars

\* C7 witness: a call for a resident number, with a row that differs from the
\* resident one, has returned.
C7_Witness ==
    /\ last.op = "insert_new_slot"
    /\ last.raised = "none"
    /\ last.existed
    /\ last.differs

\* C8 (as claimed): no slot number is resident in the ledger and also included
\* in a rollup.
C8_ExactlyOnce ==
    \A n \in DOMAIN slots : relFolds[n] = 0 /\ valFolds[n] = 0

\* C9: every ledger row references a relayer of the registry, and an
\* insert_new_slot with a relay name that is not in the registry raises and
\* leaves the ledger as it was.
C9_UnknownRelayerRejected ==
    /\ [](\A n \in DOMAIN slots : \E r \in relayers : r.id = slots[n].relay_id)
    /\ [][\A n \in SlotNumbers, rep \in Reports :
            (InsertReport(n, rep) /\ rep[1][2] \notin RelayerNames) =>
                (last'.raised = "Exception" /\ slots' = slots)]_vars

\* C9 witness: an insert_new_slot has raised for its relay name, with rows in
\* the ledger.
C9_Witness ==
    /\ last.op = "insert_new_slot"
    /\ last.raised = "Exception"
    /\ DOMAIN slots # {}

\* the live rows of the relay called name that AVG(reward) of get_avg_relay_rewards covers
RelayRewarded(sl, name) ==
    {n \in DOMAIN sl : /\ RelayName(sl[n].relay_id) = name
                       /\ sl[n].missed = 0 /\ sl[n].empty = 0
                       /\ sl[n].reward # NULL}

\* the live rows of the relay called name that AVG(reward) of get_avg_validator_rewards covers
ValidatorRewarded(sl, name) ==
    {n \in JoinValidators(sl) : /\ RelayName(sl[n].relay_id) = name
                                /\ sl[n].reward # NULL}

\* C10: a row written for a reward of -1 holds NULL and adds one to the unknown
\* reward counts of its relay; a row written for a reward of 0 holds 0, adds
\* nothing to them, and adds one to the divisor of the averages of its relay.
C10_RewardNormalised ==
    [][\A n \in SlotNumbers, rep \in Reports :
          (InsertReport(n, rep) /\ slots' # slots) =>
              LET name    == rep[1][2]
                  tracked == n \in JoinValidators(slots')
                  plain   == ~rep[2][1] /\ ~rep[2][2]
                  unk(sl) == Reported(get_unknown_reward_blocks(sl), name)
                  vunk(sl) == Reported(get_validator_unknown_reward_blocks(sl), name)
                  rr == RelayRewarded(slots, name)
                  vr == ValidatorRewarded(slots, name)
              IN /\ rep[2][3] = UNKNOWN_REWARD =>
                      /\ slots'[n].reward = NULL
                      /\ unk(slots') = unk(slots) + 1
                      /\ vunk(slots') = vunk(slots) + (IF tracked THEN 1 ELSE 0)
                 /\ rep[2][3] = 0 =>
                      /\ slots'[n].reward = 0
                      /\ unk(slots') = unk(slots)
                      /\ vunk(slots') = vunk(slots)
                      /\ plain =>
                            get_avg_relay_rewards(slots')[name] =
                                SqlDiv(Sum([m \in rr |-> slots[m].reward], rr),
                                       Cardinality(rr) + 1)
                      /\ tracked =>
                            get_avg_validator_rewards(slots')[name] =
                                SqlDiv(Sum([m \in vr |-> slots[m].reward], vr),
                                       Cardinality(vr) + 1)]_vars

\* C10 witness: an insert has just written a row, and the ledger holds a row
\* of unknown reward and a row of reward 0.
C10_Witness ==
    /\ last.op = "insert_new_slot"
    /\ last.raised = "none"
    /\ ~last.existed
    /\ \E n \in DOMAIN slots : slots[n].reward = NULL
    /\ \E n \in DOMAIN slots : slots[n].reward = 0

\* every row ever written to the ledger, as <<slot number, position>>
EverWritten == {<<n, i>> \in SlotNumbers \X (1..MaxInserts) : i <= Len(written[n])}

\* the rows ever written for the relay called name that have a known reward
\* and are neither missed nor empty
EverRewarded(name) ==
    {w \in EverWritten :
        LET row == written[w[1]][w[2]]
        IN /\ RelayName(row.relay_id) = name
           /\ row.reward # NULL /\ row.missed = 0 /\ row.empty = 0}

\* C11 (as claimed): with distinct slot numbers inserted, AvgRelayerRewards of a
\* relay is the sum of the rewards over the number of the slots ever inserted
\* for it that have a known reward and are neither missed nor empty.
C11_RelayAverageWeighted ==
    DistinctSlots =>
        LET avg == MetricOf("AvgRelayerRewards", slots, archive_relayer_slots,
                            archive_validator_slots, tables)
        IN \A name \in RelayerNames :
              LET ever == EverRewarded(name)
              IN ever # {} =>
                    /\ avg.raised = "none"
                    /\ name \in DOMAIN avg.map
                    /\ avg.map[name] =
                          SqlDiv(Sum([w \in ever |-> written[w[1]][w[2]].reward], ever),
                                 Cardinality(ever))

\* the metric m on the current database, and on the database a step leaves
MetricNow(m) == MetricOf(m, slots, archive_relayer_slots, archive_validator_slots, tables)
MetricNext(m) ==
    MetricOf(m, slots', archive_relayer_slots', archive_validator_slots', tables')

\* the average a map gives for a name: no key reads as no average
AvgOf(map, name) == IF name \in DOMAIN map THEN map[name] ELSE NullAvg

\* the averages and the unknown-reward count of every relay are computed, and
\* the step changes the unknown-reward count of `name` by d and no average
NullRewardNotAveraged(name, d) ==
    /\ \A m \in AvgMetrics \cup {"UnknownRewardsBlocks"} :
          MetricNow(m).raised = "none" => MetricNext(m).raised = "none"
    /\ \A m \in AvgMetrics : MetricNow(m).raised = "none" =>
          \A r \in RelayerNames :
              AvgOf(MetricNext(m).map, r) = AvgOf(MetricNow(m).map, r)
    /\ MetricNow("UnknownRewardsBlocks").raised = "none" =>
          \A r \in RelayerNames :
              Reported(MetricNext("UnknownRewardsBlocks").map, r) =
                  Reported(MetricNow("UnknownRewardsBlocks").map, r)
                    + (IF r = name THEN d ELSE 0)

\* C12 (as claimed): the insert of a slot of unknown reward changes no average
\* and adds one to UnknownRewardsBlocks of its relay; a prune that moves only
\* slots of unknown reward to the rollups changes no average and no
\* UnknownRewardsBlocks value.
C12_UnknownRewardExcluded ==
    [][/\ \A n \in SlotNumbers, rep \in Reports :
            (/\ InsertReport(n, rep)
             /\ slots' # slots
             /\ rep[2][3] = UNKNOWN_REWARD) => NullRewardNotAveraged(rep[1][2], 1)
       /\ \A k \in KeepLast :
            (/\ PruneDb(k)
             /\ DOMAIN slots' # DOMAIN slots
             /\ \A n \in DOMAIN slots \ DOMAIN slots' : slots[n].reward = NULL)
                => NullRewardNotAveraged("", 0)]_vars

\* the metrics grouped over rows joined to the validators table
ValidatorScoped ==
    {"RelayBlocksProposed", "ValidatorBlocksProposed", "MissedBlockProposals",
     "EmptyBlockProposals", "TotalValidatorRewards", "AvgValidatorRewards",
     "ValUnknownRewardBlocks"}

\* the step leaves the metric m computed and as it was
MetricKept(m) ==
    MetricNow(m).raised = "none" =>
        /\ MetricNext(m).raised = "none"
        /\ MetricNext(m).map = MetricNow(m).map

\* the step leaves TotalRelayBlocksProposed computed, with d more for the
\* relay called name and the same for every other relay
TotalRelayBlocksAdds(name, d) ==
    LET m == "TotalRelayBlocksProposed"
    IN MetricNow(m).raised = "none" =>
          /\ MetricNext(m).raised = "none"
          /\ \A r \in RelayerNames :
                Reported(MetricNext(m).map, r) =
                    Reported(MetricNow(m).map, r) + (IF r = name THEN d ELSE 0)

\* C13 (as claimed): the insert of a slot whose proposer is not in the
\* validators table changes no validator-scoped metric and adds one to
\* TotalRelayBlocksProposed of its relay; a prune that moves only such slots
\* changes no validator-scoped metric and leaves TotalRelayBlocksProposed as it was.
C13_ProposerFallback ==
    [][/\ \A n \in SlotNumbers, rep \in Reports :
            (/\ InsertReport(n, rep)
             /\ slots' # slots
             /\ ~validator_exists(validators, rep[1][1]))
                => /\ \A m \in ValidatorScoped : MetricKept(m)
                   /\ TotalRelayBlocksAdds(rep[1][2], 1)
       /\ \A k \in KeepLast :
            (/\ PruneDb(k)
             /\ DOMAIN slots' # DOMAIN slots
             /\ \A n \in DOMAIN slots \ DOMAIN slots' : slots[n].proposer_id = NULL)
                => /\ \A m \in ValidatorScoped : MetricKept(m)
                   /\ TotalRelayBlocksAdds("", 0)]_vars

\* ------------------------------------------------------- the data object
\* get_relayers_list: the names in the relayers table
get_relayers_list(rels) == {r.name : r \in rels}

\* the metrics populate_data_obj initialises for every relayer
ZeroFilledMetrics ==
    {"RelayBlocksProposed", "TotalRelayBlocksProposed", "RelayTotalRewards",
     "AvgRelayerRewards", "UnknownRewardsBlocks", "TotalValidatorRewards",
     "AvgValidatorRewards", "ValUnknownRewardBlocks"}

\* the 0 populate_data_obj writes, as a value of the metric m
Zero(m) == IF m \in AvgMetrics THEN <<0, 1>> ELSE 0

\* populate_data_obj without its `if relayer not in ...` loop
ZeroFill_Skip(m, map, names) == map

\* `if relayer not in data_obj['latest_metrics'][m]: ...[relayer] = 0`, for
\* every relayer of names
ZeroFill(m, map, names) ==
    [k \in DOMAIN map \cup names |-> IF k \in DOMAIN map THEN map[k] ELSE Zero(m)]

RECURSIVE Descending(_)
\* the numbers of S from the highest down: ORDER BY ... DESC
Descending(S) == IF S = {} THEN << >> ELSE <<Max(S)>> \o Descending(S \ {Max(S)})

RECURSIVE Ascending(_)
\* the numbers of S from the lowest up: ORDER BY s.number ASC
Ascending(S) == IF S = {} THEN << >> ELSE <<Min(S)>> \o Ascending(S \ {Min(S)})

\* populate_data_obj on the database (sl, ar, av, tbl): what it raised and, when
\* it returned, the data object (its slots a list in ascending order of number)
populate_data_obj(sl, ar, av, tbl) ==
    LET rows  == JoinRelayers(sl)
        order == Ascending(rows)
        got   == get_metrics_from_db(sl, ar, av, tbl)
    IN IF got.raised # "none" THEN [raised |-> got.raised]
       ELSE [raised    |-> "none",
             last_slot |-> IF rows = {} THEN 0 ELSE order[Len(order)],
             slots     |-> [i \in DOMAIN order |->
                              LET n == order[i]
                              IN [slot     |-> n,
                                  proposer |-> IF sl[n].proposer_id = NULL
                                               THEN sl[n].proposer_pubkey
                                               ELSE PublicKey(sl[n].proposer_id),
                                  relay    |-> RelayName(sl[n].relay_id),
                                  missed   |-> sl[n].missed = 1,
                                  empty    |-> sl[n].empty = 1]],
             latest_metrics |->
                [m \in DOMAIN got.metrics |->
                    IF m \in ZeroFilledMetrics
                    THEN ZeroFill(m, got.metrics[m], get_relayers_list(relayers))
                    ELSE got.metrics[m]]]

\* populate_data_obj on the current database
DataObj == populate_data_obj(slots, archive_relayer_slots, archive_validator_slots, tables)

\* C14: in the data object populate_data_obj returns, each of the eight
\* relay-keyed metric maps has a key for every relayer of the registry, and the
\* value 0 for a relayer no slot was ever inserted for.
C14_ZeroFill ==
    LET data_obj == DataObj
    IN data_obj.raised = "none" =>
          \A m \in ZeroFilledMetrics, name \in RelayerNames :
              /\ name \in DOMAIN data_obj.latest_metrics[m]
              /\ InsertedFor(name) = 0 => data_obj.latest_metrics[m][name] = Zero(m)

\* C14 witness: populate_data_obj returns on a database with archive rows, with
\* slots seen for relay A and none for relay Unknown, whose key the queries
\* leave out.
C14_Witness ==
    /\ DataObj.raised = "none"
    /\ DOMAIN archive_relayer_slots # {}
    /\ DOMAIN slots # {}
    /\ InsertedFor("A") > 0
    /\ InsertedFor("Unknown") = 0
    /\ "Unknown" \notin DOMAIN Metrics.metrics["TotalRelayBlocksProposed"]

\* C15 (as claimed): on every ledger, the metrics computed without archive
\* tables equal the metrics computed with archive tables that hold no row.
C15_AbsentArchiveIsEmptyArchive ==
    get_metrics_from_db(slots, << >>, << >>, {}) =
        get_metrics_from_db(slots, << >>, << >>, ArchiveTables)

\* ------------------------------------------- prune_db beside other callers
\* prune_db opens no transaction around its statements: what it has committed at
\* lines 790 and 845 is visible to, and can be followed by the commit of, any
\* other connection before it goes on.

\* prune_db(last_slots) in another process, up to its first commit (line 790);
\* a call with nothing to prune (or that raises) ends here
PruneValidators(last_slots) ==
    LET res == prune_db(slots, archive_relayer_slots, archive_validator_slots, tables,
                        last_slots, "killed_after_validator_commit")
    IN /\ running.pc = "idle"
       /\ archive_validator_slots' = res.archive_validator_slots
       /\ tables' = res.tables
       /\ valFolds' = [n \in SlotNumbers |->
                         valFolds[n] + IF n \in res.valFolded THEN 1 ELSE 0]
       /\ running' = IF res.pruned
                     THEN [pc |-> "validators_committed",
                           last_slots |-> last_slots,
                           cutoff |-> Max(DOMAIN slots) - last_slots,
                           inserted |-> {},
                           before |-> [slots |-> slots,
                                       archive_relayer_slots |-> archive_relayer_slots,
                                       archive_validator_slots |-> archive_validator_slots,
                                       tables |-> tables]]
                     ELSE running
       /\ last' = [op |-> "prune_db",
                   raised |-> IF res.pruned THEN "running" ELSE res.raised,
                   last_slots |-> last_slots, pruned |-> res.pruned,
                   again |-> FALSE, after_pruning |-> FALSE]
       /\ UNCHANGED <<callers, q, workers, calc, cli, config, validators, relayers, sqlite_sequence, val_index,
                   slot_sync_committee, slots, archive_relayer_slots, written,
                      relFolds, kills>>

\* the running prune_db from line 792 to its second commit (line 845): the
\* relayer groupings read the ledger as it is now, below the cutoff of line 671
PruneRelayers ==
    /\ running.pc = "validators_committed"
    /\ archive_relayer_slots' =
          UpsertRelayerRollup(archive_relayer_slots, RelayerDelta(slots, running.cutoff))
    /\ relFolds' = [n \in SlotNumbers |->
                      relFolds[n] + IF n \in BelowCutoff(slots, running.cutoff)
                                    THEN 1 ELSE 0]
    /\ running' = [running EXCEPT !.pc = "relayers_committed"]
    /\ UNCHANGED <<callers, q, workers, calc, cli, config, validators, relayers, sqlite_sequence, val_index,
                   slot_sync_committee, slots, tables, archive_validator_slots, last,
                   written, valFolds, kills>>

\* the running prune_db from line 847 to its end: DELETE below the cutoff, commit
PruneDelete ==
    /\ running.pc = "relayers_committed"
    /\ slots' = DeleteBelow(slots, running.cutoff)
    /\ running' = NotRunning
    /\ last' = [op |-> "prune_db", raised |-> "none",
                last_slots |-> running.last_slots, pruned |-> TRUE,
                again |-> FALSE, after_pruning |-> FALSE]
    /\ UNCHANGED <<callers, q, workers, calc, cli, config, validators, relayers, sqlite_sequence, val_index,
                   slot_sync_committee, tables, archive_relayer_slots,
                   archive_validator_slots, written, relFolds, valFolds, kills>>

\* insert_new_slot, which may commit while a prune_db is between two commits
InsertBesidePrune ==
    \E n \in SlotNumbers, rep \in Reports :
        /\ insert_new_slot(n, rep[1][1], rep[1][2], rep[2][1], rep[2][2], rep[2][3])
        /\ running' = IF running.pc # "idle" /\ slots' # slots
                      THEN [running EXCEPT !.inserted = @ \cup {n}]
                      ELSE running

PruneBegin == \E k \in KeepLast : PruneValidators(k)

NextConcurrent == InsertBesidePrune \/ PruneBegin \/ PruneRelayers \/ PruneDelete

SpecConcurrent == Init /\ [][NextConcurrent]_vars

\* the metrics whose values are counts of slots
CountMetrics ==
    {"RelayBlocksProposed", "TotalRelayBlocksProposed", "UnknownRewardsBlocks",
     "ValidatorBlocksProposed", "MissedBlockProposals", "EmptyBlockProposals",
     "ValUnknownRewardBlocks"}

\* C16 (as claimed): while a prune_db is between two of its commits, and no
\* insert has committed since it began, every count metric computed on the
\* database equals the metric computed on the database the prune_db found or on
\* the database the whole prune_db leaves.
C16_MetricsSeeWholePrune ==
    (running.pc # "idle" /\ running.inserted = {}) =>
        LET b == running.before
            a == prune_db(b.slots, b.archive_relayer_slots, b.archive_validator_slots,
                          b.tables, running.last_slots, "returned")
        IN \A m \in CountMetrics :
              \/ MetricNow(m) = MetricOf(m, b.slots, b.archive_relayer_slots,
                                         b.archive_validator_slots, b.tables)
              \/ MetricNow(m) = MetricOf(m, a.slots, a.archive_relayer_slots,
                                         a.archive_validator_slots, a.tables)

\* C17 (as claimed): a row that prune_db has deleted from the ledger was added
\* to the relayer rollup and, when its proposer is tracked, to the validator
\* rollup; and once prune_db has ended, a row of a tracked proposer was added to
\* both rollups or to neither.
C17_InsertSerializedWithPrune ==
    \A n \in SlotNumbers :
        Len(written[n]) = 1 =>
            LET tracked == written[n][1].proposer_id # NULL
            IN /\ n \notin DOMAIN slots =>
                    /\ relFolds[n] >= 1
                    /\ tracked => valFolds[n] >= 1
               /\ (running.pc = "idle" /\ tracked) => relFolds[n] = valFolds[n]

\* ------------------------------------------- configurations and re-sync
\* relay_config.json files: the one above, one that gives a relay the endpoint
\* "N/A", one that names a relay "Unknown", and one with two names for one endpoint
RelayConfigs ==
    {RelayConfig,
     << <<"Foo", "N/A">> >>,
     << <<"Unknown", "urlU">> >>,
     << <<"A", "urlA">>, <<"B", "urlA">> >>}

\* keys files: the one above, and one that lists a key twice
KeysFiles == {ConfigKeys, <<"v1", "v1">>}

\* the database after initialise_db() under any of these configurations
InitConfig ==
    /\ config \in [keys : KeysFiles, relay_config : RelayConfigs]
    /\ validators = insert_validators({}, 0).rows
    /\ relayers = insert_relayers({}, 0).rows
    /\ sqlite_sequence = [validators |-> insert_validators({}, 0).seq,
                          relayers   |-> insert_relayers({}, 0).seq]
    /\ cli = NoCall
    /\ val_index = NoIndexColumn
    /\ slot_sync_committee = {}
    /\ slots = << >>
    /\ tables = {}
    /\ archive_relayer_slots = << >>
    /\ archive_validator_slots = << >>
    /\ last = [op |-> "initialise_db", raised |-> "none"]
    /\ written = [n \in SlotNumbers |-> << >>]
    /\ relFolds = [n \in SlotNumbers |-> 0]
    /\ valFolds = [n \in SlotNumbers |-> 0]
    /\ kills = 0
    /\ callers = NoCallers
    /\ q = << >>
    /\ workers = << >>
    /\ calc = NotCalculating
    /\ running = NotRunning

\* update_db(): insert_validators, insert_relayers, then populate_data_obj, whose
\* exception (if any) comes after both have committed
UpdateDb ==
    /\ LET vals == insert_validators(validators, sqlite_sequence.validators)
           rels == insert_relayers(relayers, sqlite_sequence.relayers)
       IN /\ validators' = vals.rows
          /\ relayers' = rels.rows
          /\ sqlite_sequence' = [validators |-> vals.seq, relayers |-> rels.seq]
    /\ last' = [op |-> "update_db", raised |-> DataObj.raised]
    /\ UNCHANGED <<callers, q, workers, calc, cli, config, val_index, slot_sync_committee, slots, tables,
                   archive_relayer_slots, archive_validator_slots,
                   written, relFolds, valFolds, kills, running>>

\* the reports offered beside a re-sync: the tracked validator through the
\* first relay of the configuration, with a rewarded block or a missed slot
ConfiguredReports ==
    {<<"v1", config.relay_config[1][1], o[1], o[2], o[3]>> :
        o \in {<<FALSE, FALSE, 1>>, <<TRUE, FALSE, UNKNOWN_REWARD>>}}

InsertConfigured ==
    /\ \E n \in SlotNumbers, rep \in ConfiguredReports :
          insert_new_slot(n, rep[1], rep[2], rep[3], rep[4], rep[5])
    /\ UNCHANGED running

NextConfig == InsertConfigured \/ Prune \/ UpdateDb

SpecConfig == InitConfig /\ [][NextConfig]_vars

\* C18 (as claimed): whatever the relay configuration, the relayers table holds
\* a row named "Unknown" with endpoint "N/A" from insert_relayers on.
C18_UnknownSentinelPresent ==
    \E r \in relayers : r.name = "Unknown" /\ r.endpoint = "N/A"

\* C19: update_db, run again under the configuration the database was
\* initialised with, leaves the validators and relayers tables (rows and ids),
\* the ledger and both rollups as they were.
C19_ResyncIdempotent ==
    [][UpdateDb => /\ validators' = validators
                   /\ relayers' = relayers
                   /\ sqlite_sequence' = sqlite_sequence
                   /\ LedgerAndRollupsUnchanged]_vars

\* C19 witness: update_db has run on a database with rows in the ledger and in
\* the rollups, under a configuration with two names for one endpoint.
C19_Witness ==
    /\ last.op = "update_db"
    /\ Len(config.relay_config) = 2
    /\ DOMAIN slots # {}
    /\ DOMAIN archive_relayer_slots # {}

\* ------------------------------------------------ sync committee ledger
\* validator_index_exists: len(cur.fetchone()) == 3, where fetchone() is None
\* on an empty validators table
validator_index_exists ==
    IF validators = {} THEN "TypeError"
    ELSE IF val_index.column THEN "True" ELSE "False"

sync_committee_table_exists == "slot_sync_committee" \in tables

RECURSIVE SetIndexes(_, _, _)
\* the UPDATE validators SET val_index = ? WHERE public_key = ? loop of
\* insert_validator_indexes over key_index_mapping[i..]
SetIndexes(index, key_index_mapping, i) ==
    IF i > Len(key_index_mapping) THEN index
    ELSE LET ids == {v.id : v \in {w \in validators :
                                      w.public_key = key_index_mapping[i][1]}}
         IN SetIndexes([id \in DOMAIN index \cup ids |->
                           IF id \in ids THEN key_index_mapping[i][2] ELSE index[id]],
                       key_index_mapping, i + 1)

\* insert_validator_indexes(key_index_mapping): add_validator_index if the
\* column is missing, then the updates
insert_validator_indexes(key_index_mapping) ==
    IF validator_index_exists = "TypeError"
    THEN /\ last' = [op |-> "insert_validator_indexes", raised |-> "TypeError"]
         /\ UNCHANGED val_index
    ELSE /\ val_index' = [column |-> TRUE,
                          index  |-> SetIndexes(val_index.index, key_index_mapping, 1)]
         /\ last' = [op |-> "insert_validator_indexes", raised |-> "none"]

\* an index lookup that falls back to the first validator instead of finding no row
IdOfIndex_FirstValidator(i) ==
    LET found == {v \in validators : v.id \in DOMAIN val_index.index
                                     /\ val_index.index[v.id] = i}
    IN FirstId(IF found = {} THEN validators ELSE found)

\* SELECT id FROM validators WHERE val_index = ?: result[0][0], or NOT_FOUND
IdOfIndex(i) == FirstId({v \in validators : v.id \in DOMAIN val_index.index
                                            /\ val_index.index[v.id] = i})

RECURSIVE InsertPerformance_NoUnique(_, _, _, _)
\* the insert loop on a table without UNIQUE(slot_number, validator_id)
InsertPerformance_NoUnique(rows, slot, validator_performance, i) ==
    IF i > Len(validator_performance) THEN rows
    ELSE InsertPerformance_NoUnique(
             rows \cup {[slot_number |-> slot,
                         validator_id |-> IdOfIndex(validator_performance[i][1]),
                         participated |-> BoolToInt(validator_performance[i][2])]},
             slot, validator_performance, i + 1)

RECURSIVE InsertPerformance(_, _, _, _)
\* the INSERT OR IGNORE INTO slot_sync_committee loop over
\* validator_performance[i..], UNIQUE(slot_number, validator_id)
InsertPerformance(rows, slot, validator_performance, i) ==
    IF i > Len(validator_performance) THEN rows
    ELSE LET vid == IdOfIndex(validator_performance[i][1])
             row == [slot_number |-> slot, validator_id |-> vid,
                     participated |-> BoolToInt(validator_performance[i][2])]
         IN InsertPerformance(
                IF \E r \in rows : r.slot_number = slot /\ r.validator_id = vid
                THEN rows ELSE rows \cup {row},
                slot, validator_performance, i + 1)

\* insert_sync_committee_performance(slot, validator_performance): the table is
\* created (and committed) before the column check and the index lookups
insert_sync_committee_performance(slot, validator_performance) ==
    /\ tables' = tables \cup {"slot_sync_committee"}
    /\ IF validator_index_exists = "TypeError"
       THEN /\ last' = [op |-> "insert_sync_committee_performance", raised |-> "TypeError"]
            /\ UNCHANGED slot_sync_committee
       ELSE IF validator_index_exists = "False"
       THEN /\ last' = [op |-> "insert_sync_committee_performance", raised |-> "Exception"]
            /\ UNCHANGED slot_sync_committee
       ELSE IF \E i \in 1..Len(validator_performance) :
                  IdOfIndex(validator_performance[i][1]) = NOT_FOUND
       THEN /\ last' = [op |-> "insert_sync_committee_performance", raised |-> "Exception"]
            /\ UNCHANGED slot_sync_committee
       ELSE /\ slot_sync_committee' =
                  InsertPerformance(slot_sync_committee, slot, validator_performance, 1)
            /\ last' = [op |-> "insert_sync_committee_performance", raised |-> "none"]

\* a range that leaves its end slot out
InRange_EndExcluded(n, start_slot, end_slot) == n >= start_slot /\ n < end_slot

\* WHERE slot_number >= start_slot AND slot_number <= end_slot
InRange(n, start_slot, end_slot) == n >= start_slot /\ n <= end_slot

exists_sync_committee_performance_between_slots(start_slot, end_slot) ==
    \E r \in slot_sync_committee : InRange(r.slot_number, start_slot, end_slot)

\* SELECT v.public_key, COUNT(*) FROM slot_sync_committee s JOIN validators v
\* ON s.validator_id = v.id WHERE s.participated = flag AND <range>
\* GROUP BY s.validator_id, through execute_query_dict
PerformanceQuery(flag, start_slot, end_slot) ==
    LET rows == {r \in slot_sync_committee :
                    /\ r.participated = flag
                    /\ InRange(r.slot_number, start_slot, end_slot)
                    /\ \E v \in validators : v.id = r.validator_id}
    IN CountBy([r \in rows |-> PublicKey(r.validator_id)])

\* get_sync_committee_performance_between_slots(start_slot, end_slot): what it
\* raises and returns; the table is created when it is missing
get_sync_committee_performance_between_slots(start_slot, end_slot) ==
    IF start_slot > end_slot
    THEN /\ last' = [op |-> "get_sync_committee_performance_between_slots",
                     raised |-> "Exception", args |-> <<start_slot, end_slot>>]
         /\ UNCHANGED tables
    ELSE IF ~sync_committee_table_exists
    THEN /\ tables' = tables \cup {"slot_sync_committee"}
         /\ last' = [op |-> "get_sync_committee_performance_between_slots",
                     raised |-> "none", args |-> <<start_slot, end_slot>>,
                     returned |-> << << >>, << >> >>]
    ELSE /\ UNCHANGED tables
         /\ last' = [op |-> "get_sync_committee_performance_between_slots",
                     raised |-> "none", args |-> <<start_slot, end_slot>>,
                     returned |->
                        IF ~exists_sync_committee_performance_between_slots(start_slot, end_slot)
                        THEN << << >>, << >> >>
                        ELSE <<PerformanceQuery(1, start_slot, end_slot),
                               PerformanceQuery(0, start_slot, end_slot)>>]

\* the keys file of the sync committee runs: two tracked validators
SyncKeys == <<"v1", "v2">>

\* key_index_mapping arguments: public key -> validator index, in dict order;
\* "zz" is the key of no validator
IndexMappings ==
    {<< <<"v1", 7>> >>, << <<"v1", 7>>, <<"v2", 8>> >>, << <<"v2", 8>>, <<"zz", 7>> >>}

\* validator_performance arguments: validator index -> participated, in dict
\* order; no validator ever has index 9
Performances ==
    {<< <<7, TRUE>> >>, << <<7, FALSE>> >>, << <<8, TRUE>> >>,
     << <<7, TRUE>>, <<8, FALSE>> >>, << <<7, TRUE>>, <<9, FALSE>> >>}

InitSync ==
    /\ config = [keys |-> SyncKeys, relay_config |-> RelayConfig]
    /\ validators = insert_validators({}, 0).rows
    /\ relayers = insert_relayers({}, 0).rows
    /\ sqlite_sequence = [validators |-> insert_validators({}, 0).seq,
                          relayers   |-> insert_relayers({}, 0).seq]
    /\ cli = NoCall
    /\ val_index = NoIndexColumn
    /\ slot_sync_committee = {}
    /\ slots = << >>
    /\ tables = {}
    /\ archive_relayer_slots = << >>
    /\ archive_validator_slots = << >>
    /\ last = [op |-> "initialise_db", raised |-> "none"]
    /\ written = [n \in SlotNumbers |-> << >>]
    /\ relFolds = [n \in SlotNumbers |-> 0]
    /\ valFolds = [n \in SlotNumbers |-> 0]
    /\ kills = 0
    /\ callers = NoCallers
    /\ q = << >>
    /\ workers = << >>
    /\ calc = NotCalculating
    /\ running = NotRunning

InsertValidatorIndexes ==
    /\ \E key_index_mapping \in IndexMappings : insert_validator_indexes(key_index_mapping)
    /\ UNCHANGED <<callers, q, workers, calc, cli, config, validators, relayers, sqlite_sequence, slot_sync_committee, slots,
                   tables, archive_relayer_slots, archive_validator_slots, written,
                   relFolds, valFolds, kills, running>>

InsertSyncCommitteePerformance ==
    /\ \E slot \in SlotNumbers, validator_performance \in Performances :
          insert_sync_committee_performance(slot, validator_performance)
    /\ UNCHANGED <<callers, q, workers, calc, cli, config, validators, relayers, sqlite_sequence, val_index, slots,
                   archive_relayer_slots, archive_validator_slots, written,
                   relFolds, valFolds, kills, running>>

GetSyncCommitteePerformanceBetweenSlots ==
    /\ \E start_slot \in SlotNumbers, end_slot \in SlotNumbers :
          get_sync_committee_performance_between_slots(start_slot, end_slot)
    /\ UNCHANGED <<callers, q, workers, calc, cli, config, validators, relayers, sqlite_sequence, val_index,
                   slot_sync_committee, slots, archive_relayer_slots,
                   archive_validator_slots, written, relFolds, valFolds, kills, running>>

NextSync ==
    \/ InsertValidatorIndexes
    \/ InsertSyncCommitteePerformance
    \/ GetSyncCommitteePerformanceBetweenSlots

SpecSync == InitSync /\ [][NextSync]_vars

\* C20 (as claimed): insert_sync_committee_performance called while validators
\* has no val_index column raises, inserts no participation row and creates
\* no table.
C20_MissingIndexColumnChangesNothing ==
    [][(InsertSyncCommitteePerformance /\ ~val_index.column)
          => /\ last'.raised = "Exception"
             /\ slot_sync_committee' = slot_sync_committee
             /\ tables' = tables
             /\ val_index' = val_index]_vars

\* the validators whose val_index is i
WithIndex(i) ==
    {v \in validators : v.id \in DOMAIN val_index.index /\ val_index.index[v.id] = i}

\* some index of validator_performance belongs to no validator row
HasUnknownIndex(validator_performance) ==
    \E i \in 1..Len(validator_performance) : WithIndex(validator_performance[i][1]) = {}

\* C21: a call of insert_sync_committee_performance whose map holds an index
\* that no validator row has raises and inserts no row, not even for the
\* indexes of the map that do resolve.
C21_UnknownIndexInsertsNothing ==
    [][\A slot \in SlotNumbers, validator_performance \in Performances :
          (/\ insert_sync_committee_performance(slot, validator_performance)
           /\ HasUnknownIndex(validator_performance))
             => /\ last'.raised = "Exception"
                /\ slot_sync_committee' = slot_sync_committee]_vars

\* C21 witness: a call has just failed although the column exists and the
\* indexes 7 and 8 both resolve: the map was {7: True, 9: False}.
C21_Witness ==
    /\ last = [op |-> "insert_sync_committee_performance", raised |-> "Exception"]
    /\ val_index.column
    /\ WithIndex(7) # {}
    /\ WithIndex(8) # {}

\* C22: whatever is called, a row of slot_sync_committee stays as it was first
\* recorded, and the table never holds two rows for one (slot_number,
\* validator_id).
C22_OneRowPerSlotAndValidator ==
    [][/\ slot_sync_committee \subseteq slot_sync_committee'
       /\ \A r1, r2 \in slot_sync_committee' :
             (r1.slot_number = r2.slot_number /\ r1.validator_id = r2.validator_id)
                => r1 = r2]_vars

\* C22 witness: slot 1 holds "did not participate" for both validators. The
\* index of validator 2 is only ever 8, so its row comes from the map
\* {7: True, 8: False}, and that call met the row of validator 1, recorded
\* before it with the opposite flag.
C22_Witness ==
    /\ [slot_number |-> 1, validator_id |-> 1, participated |-> 0] \in slot_sync_committee
    /\ [slot_number |-> 1, validator_id |-> 2, participated |-> 0] \in slot_sync_committee

\* the value a returned map gives a key, 0 for a key it does not hold
CountIn(map, k) == IF k \in DOMAIN map THEN map[k] ELSE 0

\* the recorded rows of the validator with public key pk that lie in
\* start..end and carry the flag
RecordedRows(pk, flag, start, end) ==
    {r \in slot_sync_committee :
        /\ r.participated = flag
        /\ r.slot_number \in start..end
        /\ \E v \in validators : v.id = r.validator_id /\ v.public_key = pk}

\* C23: get_sync_committee_performance_between_slots(start, end) with
\* start <= end returns, for each public key, the number of recorded rows
\* within start..end with participated = 1 in the first map and with
\* participated = 0 in the second (a key a map does not hold counts as 0),
\* two empty maps when no row lies in the range or the table does not exist,
\* and leaves every row as it is.
C23_ParticipationBetween ==
    [][\A start \in SlotNumbers, end \in SlotNumbers :
          (get_sync_committee_performance_between_slots(start, end) /\ start <= end)
             => /\ last'.raised = "none"
                /\ \A v \in validators :
                      /\ CountIn(last'.returned[1], v.public_key)
                            = Cardinality(RecordedRows(v.public_key, 1, start, end))
                      /\ CountIn(last'.returned[2], v.public_key)
                            = Cardinality(RecordedRows(v.public_key, 0, start, end))
                /\ DOMAIN last'.returned[1] \subseteq {v.public_key : v \in validators}
                /\ DOMAIN last'.returned[2] \subseteq {v.public_key : v \in validators}
                /\ ((\A r \in slot_sync_committee : r.slot_number \notin start..end)
                    \/ ~sync_committee_table_exists)
                      => last'.returned = << << >>, << >> >>
                /\ slot_sync_committee' = slot_sync_committee]_vars

\* C23 witness: the range 1..2 has been queried while slot 3 holds a row, and
\* both maps came back with a count.
C23_Witness ==
    /\ last.op = "get_sync_committee_performance_between_slots"
    /\ last.raised = "none"
    /\ last.args = <<1, 2>>
    /\ DOMAIN last.returned[1] # {}
    /\ DOMAIN last.returned[2] # {}
    /\ \E r \in slot_sync_committee : r.slot_number = 3

\* C24: the slot list of the data object holds exactly the slot numbers now in
\* the ledger, each once and in strictly ascending order, and last_slot is the
\* highest of them, or 0 for an empty ledger.
C24_SlotListIsResidentLedger ==
    LET data_obj == DataObj
        list     == data_obj.slots
    IN data_obj.raised = "none"
          => /\ {list[i].slot : i \in DOMAIN list} = DOMAIN slots
             /\ \A i, j \in DOMAIN list : i < j => list[i].slot < list[j].slot
             /\ data_obj.last_slot = IF DOMAIN slots = {} THEN 0 ELSE Max(DOMAIN slots)

\* C24 witness: a data object is returned for a ledger of two slots from which
\* a third one has been pruned into the rollups.
C24_Witness ==
    /\ DataObj.raised = "none"
    /\ Len(DataObj.slots) = 2
    /\ \E n \in SlotNumbers : n \notin DOMAIN slots /\ relFolds[n] > 0

\* ------------------------------------------------- command-line options
\* Python values of the options dict and of the JSON config file, as
\* [t, v]: the type and the printed value
PyNone == [t |-> "none", v |-> "None"]
PyInt(v) == [t |-> "int", v |-> v]
PyStr(v) == [t |-> "str", v |-> v]
PyBool(v) == [t |-> "bool", v |-> v]

\* int(x) inside try/except: the integer, or failure on ValueError / TypeError
IntOf(x) ==
    IF x.t = "int" THEN [ok |-> TRUE, value |-> x]
    ELSE IF x.t = "bool"
    THEN [ok |-> TRUE, value |-> PyInt(IF x.v = "True" THEN "1" ELSE "0")]
    ELSE IF x.t = "str" /\ x.v \in {"9000", "64"}
    THEN [ok |-> TRUE, value |-> PyInt(x.v)]
    ELSE [ok |-> FALSE]

\* isinstance(x, bool)
IsBool(x) == x.t = "bool"

\* os.path.exists(path): the files there are
exists(path) == path.t = "str" /\ path.v \in {"keys.txt", "relays.json"}

\* check_endpoint_validity_eth2 / _eth1: the endpoints that answer
check_endpoint_validity(endpoint) == endpoint.t = "str" /\ endpoint.v = "http://up"

\* the options that take int(config[option])
IntOptions == {"port", "last_slot", "keep_last_slots"}
\* the options that take a bool from config[option] or else from its older key
BoolOptions == {"rewards", "eth1_parallel", "eth2_parallel", "prune", "sync_committee"}
OlderKey ==
    [rewards |-> "reward_metrics", eth1_parallel |-> "parallel_requests_eth1",
     eth2_parallel |-> "parallel_requests_eth2", prune |-> "pruning",
     sync_committee |-> "sync_committee_participation", pubkeys_file |-> "keys_file"]
EndpointOptions == {"eth2_rpc", "eth1_rpc"}

OptionNames ==
    IntOptions \cup BoolOptions \cup EndpointOptions
        \cup {"config", "pubkeys_file", "pubkeys", "relay_config"}

\* a branch that takes the config file's value whatever the command line gave
Guard_Always(value) == TRUE

\* `value is PyNone` in each branch of the loop
Guard(value) == value = PyNone

\* one iteration of `for option, value in options.items()` on st =
\* [new_options, ended]; new_options is the options dict itself, so value is
\* new_options[option]
Step(st, cfg, option) ==
    LET opts  == st.new_options
        value == opts[option]
        keys  == DOMAIN cfg
        set(v) == [st EXCEPT !.new_options[option] = v]
        exit  == [st EXCEPT !.ended = "exit"]
        keyerror == [st EXCEPT !.ended = "KeyError"]
    IN IF option \in IntOptions /\ Guard(value) /\ option \in keys
       THEN IF IntOf(cfg[option]).ok THEN set(IntOf(cfg[option]).value)
            \* the message of keep_last_slots reads config['keep_last_slot']
            ELSE IF option = "keep_last_slots" /\ "keep_last_slot" \notin keys
            THEN keyerror ELSE exit
       ELSE IF option \in EndpointOptions /\ Guard(value) /\ option \in keys
       THEN IF check_endpoint_validity(cfg[option]) THEN set(cfg[option])
            \* the message of eth1_rpc reads config['eth2_rpc']
            ELSE IF option = "eth1_rpc" /\ "eth2_rpc" \notin keys
            THEN keyerror ELSE exit
       ELSE IF option \in BoolOptions /\ Guard(value)
               /\ (option \in keys \/ OlderKey[option] \in keys)
       THEN LET k == IF option \in keys THEN option ELSE OlderKey[option]
            IN IF IsBool(cfg[k]) THEN set(cfg[k]) ELSE exit
       ELSE IF option = "pubkeys_file" /\ Guard(value) /\ opts["pubkeys"] = PyNone
               /\ (option \in keys \/ OlderKey[option] \in keys)
       THEN LET k == IF option \in keys THEN option ELSE OlderKey[option]
            IN IF exists(cfg[k]) THEN set(cfg[k]) ELSE exit
       ELSE IF option = "pubkeys" /\ Guard(value) /\ opts["pubkeys_file"] = PyNone
               /\ option \in keys
       THEN set(cfg[option])
       ELSE IF option = "relay_config" /\ Guard(value) /\ option \in keys
       THEN IF exists(cfg[option]) THEN set(cfg[option]) ELSE exit
       ELSE st

RECURSIVE Loop(_, _, _, _)
\* the loop over order[i..], cut short by exit() or an exception
Loop(st, cfg, order, i) ==
    IF i > Len(order) \/ st.ended # "running" THEN st
    ELSE Loop(Step(st, cfg, order[i]), cfg, order, i + 1)

\* read_config_update_options(options) with the config file cfg, the options
\* dict iterating in the given order: how it ended and, if it returned, what
read_config_update_options(options, cfg, order) ==
    LET st == Loop([new_options |-> options, ended |-> "running"], cfg, order, 1)
    IN IF st.ended = "running"
       THEN [ended |-> "returned", new_options |-> st.new_options]
       ELSE [ended |-> st.ended]

\* what the command line gives an option when it gives it; "False" and "0" are
\* values the command line can give that are not PyNone
GivenValues ==
    [o \in OptionNames |->
        IF o \in IntOptions THEN {PyInt("0"), PyInt("8000")}
        ELSE IF o \in BoolOptions THEN {PyBool("False")}
        ELSE IF o \in EndpointOptions THEN {PyStr("http://cli")}
        ELSE {PyStr("cli.txt")}]

\* the keys a config file may hold and the values it may give them
ConfigFileKeys ==
    (OptionNames \ {"config"}) \cup {OlderKey[o] : o \in DOMAIN OlderKey}
ConfigFileValues(k) ==
    IF k \in IntOptions THEN {PyStr("9000"), PyStr("abc")}
    ELSE IF k \in EndpointOptions THEN {PyStr("http://up"), PyStr("http://down")}
    ELSE IF k \in {"pubkeys_file", "keys_file", "relay_config"}
    THEN {PyStr("keys.txt"), PyStr("gone.txt")}
    ELSE IF k = "pubkeys" THEN {PyStr("0xbb")}
    ELSE {PyBool("True"), PyStr("yes")}

\* at most this many options are given on the command line, and at most this
\* many keys are in the config file
MaxGiven == 1
MaxConfigKeys == 2

\* the orders the options dict may iterate in: as listed, with pubkeys_file
\* before pubkeys or after it
OptionOrders ==
    LET head == <<"config", "port", "eth2_rpc", "rewards", "eth1_rpc", "eth1_parallel",
                  "eth2_parallel", "last_slot", "prune", "keep_last_slots",
                  "sync_committee", "relay_config">>
    IN {head \o <<"pubkeys_file", "pubkeys">>, head \o <<"pubkeys", "pubkeys_file">>}

\* the options dict of a call: the given options with one of their values,
\* every other option None
OptionsDicts ==
    UNION {{[o \in OptionNames |->
                IF o = "config" THEN PyStr("config.json")
                ELSE IF o \in DOMAIN gv THEN gv[o] ELSE PyNone]
              : gv \in {f \in [given -> UNION {GivenValues[o] : o \in given}] :
                           \A o \in given : f[o] \in GivenValues[o]}}
           : given \in {G \in SUBSET (OptionNames \ {"config"}) :
                           Cardinality(G) <= MaxGiven}}

\* the config files of a call
ConfigFiles ==
    UNION {{f \in [present -> UNION {ConfigFileValues(k) : k \in present}] :
               \A k \in present : f[k] \in ConfigFileValues(k)}
           : present \in {P \in SUBSET ConfigFileKeys : Cardinality(P) <= MaxConfigKeys}}

\* a fresh database, and a call of read_config_update_options about to be made
InitOptions ==
    /\ cli \in [ended : {"not called"}, options : OptionsDicts,
                config_file : ConfigFiles, order : OptionOrders]
    /\ config = [keys |-> ConfigKeys, relay_config |-> RelayConfig]
    /\ validators = insert_validators({}, 0).rows
    /\ relayers = insert_relayers({}, 0).rows
    /\ sqlite_sequence = [validators |-> insert_validators({}, 0).seq,
                          relayers   |-> insert_relayers({}, 0).seq]
    /\ val_index = NoIndexColumn
    /\ slot_sync_committee = {}
    /\ slots = << >>
    /\ tables = {}
    /\ archive_relayer_slots = << >>
    /\ archive_validator_slots = << >>
    /\ last = [op |-> "initialise_db", raised |-> "none"]
    /\ written = [n \in SlotNumbers |-> << >>]
    /\ relFolds = [n \in SlotNumbers |-> 0]
    /\ valFolds = [n \in SlotNumbers |-> 0]
    /\ kills = 0
    /\ callers = NoCallers
    /\ q = << >>
    /\ workers = << >>
    /\ calc = NotCalculating
    /\ running = NotRunning

ReadConfigUpdateOptions ==
    /\ cli.ended = "not called"
    /\ "options" \in DOMAIN cli
    /\ LET res == read_config_update_options(cli.options, cli.config_file, cli.order)
       IN cli' = [options     |-> cli.options,
                  config_file |-> cli.config_file,
                  order       |-> cli.order,
                  ended       |-> res.ended,
                  new_options |-> IF res.ended = "returned" THEN res.new_options
                                  ELSE << >>]
    /\ UNCHANGED <<callers, q, workers, calc, config, validators, relayers, sqlite_sequence, val_index,
                   slot_sync_committee, slots, tables, archive_relayer_slots,
                   archive_validator_slots, last, written, relFolds, valFolds, kills,
                   running>>

NextOptions == ReadConfigUpdateOptions

SpecOptions == InitOptions /\ [][NextOptions]_vars

\* C25: when read_config_update_options returns, every option that the
\* options dict gave a value other than None has that value in the returned
\* dict, whatever the config file holds.
C25_CommandLineWins ==
    cli.ended = "returned"
       => \A o \in OptionNames :
             cli.options[o] # PyNone => cli.new_options[o] = cli.options[o]

\* C25 witness: the command line gave port 0, the config file gives port
\* "9000" and one more key, and the call returned with that other option filled
\* from the file.
C25_Witness ==
    /\ cli.ended = "returned"
    /\ cli.options["port"] = PyInt("0")
    /\ "port" \in DOMAIN cli.config_file
    /\ cli.config_file["port"] = PyStr("9000")
    /\ \E o \in OptionNames : cli.options[o] = PyNone /\ cli.new_options[o] # PyNone

\* the rows ever written for the relay called name by a tracked validator that
\* have a known reward and are neither missed nor empty
EverRewardedTracked(name) ==
    {w \in EverRewarded(name) : written[w[1]][w[2]].proposer_id # NULL}

\* C26 (as claimed): AvgValidatorRewards of a relay is the sum of the rewards
\* over the number of the slots ever inserted for it by tracked validators that
\* have a known reward and are neither missed nor empty, whether they are
\* still in the ledger or archived.
C26_ValidatorAverageWeighted ==
    LET avg == MetricNow("AvgValidatorRewards")
    IN \A name \in RelayerNames :
          LET ever == EverRewardedTracked(name)
          IN ever # {} =>
                /\ avg.raised = "none"
                /\ name \in DOMAIN avg.map
                /\ avg.map[name] =
                      SqlDiv(Sum([w \in ever |-> written[w[1]][w[2]].reward], ever),
                             Cardinality(ever))

\* the rows ever written for the relay called name, by a tracked validator if
\* m is the validator-scoped average, that qualify for the average m
EverQualifying(m, name) ==
    IF m = "AvgValidatorRewards" THEN EverRewardedTracked(name) ELSE EverRewarded(name)

\* C27 (as claimed): an average map holds no null value, and no entry for a
\* relay that has no slot with a known reward that is neither missed nor empty,
\* in the ledger or archived.
C27_AveragesDefinedOrAbsent ==
    \A m \in AvgMetrics :
       LET avg == MetricNow(m)
       IN avg.raised = "none" =>
             \A name \in DOMAIN avg.map :
                /\ avg.map[name] # NullAvg
                /\ EverQualifying(m, name) # {}

\* C28: a relay with a rollup row and no row in the ledger has an entry in
\* AvgRelayerRewards, the quotient total_rewards / total_slots of its rollup row.
C28_ArchiveOnlyRelayKept ==
    LET avg == MetricNow("AvgRelayerRewards")
    IN \A k \in DOMAIN archive_relayer_slots :
          (archive_exists(tables) /\ \A n \in DOMAIN slots : slots[n].relay_id # k)
             => /\ avg.raised = "none"
                /\ RelayName(k) \in DOMAIN avg.map
                /\ avg.map[RelayName(k)] =
                      SqlDiv(archive_relayer_slots[k].total_rewards,
                             archive_relayer_slots[k].total_slots)

\* C28 witness: a relay has only archived data, with a reward total of 1 over
\* one slot, while another relay has the ledger's rows.
C28_Witness ==
    /\ archive_exists(tables)
    /\ DOMAIN slots # {}
    /\ \E k \in DOMAIN archive_relayer_slots :
          /\ \A n \in DOMAIN slots : slots[n].relay_id # k
          /\ archive_relayer_slots[k].total_rewards = 1
          /\ archive_relayer_slots[k].total_slots = 1

\* additive merge of a rollup field: a null delta leaves the field as it is, a
\* null field takes the delta, two values add up
AdditiveMerge(existing, incoming) ==
    IF incoming = NULL THEN existing
    ELSE IF existing = NULL THEN incoming
    ELSE existing + incoming

\* the rows a step deletes from the ledger
Removed == {n \in DOMAIN slots : n \notin DOMAIN slots'}

\* what the rows a prune step removes contribute to the rollup row of relay k
RelayerContribution(k) ==
    LET rows  == {n \in Removed : slots[n].relay_id = k}
        known == {n \in rows : slots[n].reward # NULL}
    IN [total_slots         |-> CountOrNull(known),
        total_rewards       |-> SqlSum([n \in known |-> slots[n].reward], known),
        total_unknown_slots |-> CountOrNull(rows \ known)]

\* what they contribute to the rollup row of validator v and relay k
ValidatorContribution(v, k) ==
    LET rows == {n \in Removed : slots[n].proposer_id = v /\ slots[n].relay_id = k}
    IN [total_slots          |-> CountOrNull(rows),
        total_rewards        |-> SqlSum([n \in rows |-> slots[n].reward], rows),
        total_missed         |-> CountOrNull({n \in rows : slots[n].missed = 1}),
        total_empty          |-> CountOrNull({n \in rows : slots[n].empty = 1}),
        total_unknown_reward |-> CountOrNull({n \in rows : slots[n].reward = NULL})]

\* the field f of the row of key in the rollup table t, null without a row
FieldOf(t, key, f) == IF key \in DOMAIN t THEN t[key][f] ELSE NULL

\* C29 (as claimed): a prune that returns leaves in every field of every rollup
\* row the additive merge of what the field held and what the pruned rows
\* contribute to it: a field nothing contributed to stays null, a null
\* contribution leaves the field unchanged.
C29_AdditiveMerge ==
    [][((\E k \in KeepLast : PruneDb(k)) /\ last'.raised = "none")
          => /\ \A k \in DOMAIN archive_relayer_slots' :
                   \A f \in DOMAIN RelayerContribution(k) :
                      archive_relayer_slots'[k][f] =
                         AdditiveMerge(FieldOf(archive_relayer_slots, k, f), RelayerContribution(k)[f])
             /\ \A key \in DOMAIN archive_validator_slots' :
                   \A f \in DOMAIN ValidatorContribution(key[1], key[2]) :
                      archive_validator_slots'[key][f] =
                         AdditiveMerge(FieldOf(archive_validator_slots, key, f),
                               ValidatorContribution(key[1], key[2])[f])]_vars

\* the sum-like metrics: every metric that is not an average
SumMetrics == {MetricNames[i] : i \in 1..Len(MetricNames)} \ AvgMetrics

\* archive_value.get(key, 0) / live_value.get(key, 0), a null counting as 0
ValueOrZero(map, key) == IF key \in DOMAIN map /\ map[key] # NULL THEN map[key] ELSE 0

\* the rows ever written for the relay called name that have a known reward
EverKnownReward(name) ==
    {w \in EverWritten :
        /\ RelayName(written[w[1]][w[2]].relay_id) = name
        /\ written[w[1]][w[2]].reward # NULL}

\* C30 (as claimed): every sum-like metric is computed without an exception,
\* has the keys of its archive map and of its live map, and gives each key the
\* archive value plus the live value, 0 standing for a missing one, never a
\* null; RelayTotalRewards of a relay is the sum of the known rewards of all
\* the slots ever inserted for it.
C30_SumLikeCombination ==
    \A m \in SumMetrics :
       LET got  == MetricNow(m)
           live == LiveQuery(slots)[m]
           arch == IF archive_exists(tables)
                   THEN ArchiveQuery(slots, archive_relayer_slots,
                                     archive_validator_slots)[m]
                   ELSE << >>
       IN /\ got.raised = "none"
          /\ DOMAIN got.map = DOMAIN arch \cup DOMAIN live
          /\ \A key \in DOMAIN got.map :
                /\ got.map[key] # NULL
                /\ got.map[key] = ValueOrZero(arch, key) + ValueOrZero(live, key)
                /\ m = "RelayTotalRewards" =>
                      got.map[key] = LET ever == EverKnownReward(key)
                                     IN Sum([w \in ever |-> written[w[1]][w[2]].reward], ever)

\* ---------------------------------------- lazy creation beside other callers
\* prune_db (lines 659-660) and insert_sync_committee_performance (lines
\* 1351-1352) ask whether their tables exist on one connection and create them
\* on another; every CREATE TABLE is committed as it is executed, so another
\* process can run between the question and each CREATE TABLE, and the process
\* can die between the two CREATE TABLE of create_archive_db.
Callers == {1, 2}

\* the calls each caller makes
MaxCalls == 2

\* the keep_last_slots the callers prune with
CallerKeep == 0

\* the sync-committee report the callers record
CallerPerformance == << <<7, TRUE>> >>

Idle == [op |-> "none", pc |-> "idle", raised |-> "none", calls |-> 0]

\* the CREATE TABLE statements of the creation function of `op`, in order
CreateStatements(op) ==
    IF op = "prune_db" THEN <<"archive_relayer_slots", "archive_validator_slots">>
    ELSE <<"slot_sync_committee">>

\* archive_exists() / sync_committee_table_exists() as the caller of `op` asks it
TablesExist(op) ==
    IF op = "prune_db" THEN archive_exists(tables) ELSE sync_committee_table_exists

\* lines 659 and 1351: caller c enters `op` and asks whether its tables exist
CheckExists(c, op) ==
    /\ callers[c].pc \in {"idle", "returned", "raised", "killed"}
    /\ callers[c].calls < MaxCalls
    /\ callers' = [callers EXCEPT ![c] =
                     [op |-> op, raised |-> "none", calls |-> @.calls + 1,
                      pc |-> IF TablesExist(op) THEN "proceed" ELSE "create_1"]]
    /\ UNCHANGED <<q, workers, calc, cli, config, validators, relayers, sqlite_sequence,
                   val_index, slot_sync_committee, slots, tables, archive_relayer_slots,
                   archive_validator_slots, last, written, relFolds, valFolds, kills,
                   running>>

\* a CREATE TABLE that raises when the table exists
CreateTable(tbl, name) ==
    IF name \in tbl THEN [tables |-> tbl, raised |-> "OperationalError"]
    ELSE [tables |-> tbl \cup {name}, raised |-> "none"]

\* caller c executes its i-th CREATE TABLE
CreateStep(c, i) ==
    LET stmts == CreateStatements(callers[c].op)
        res   == CreateTable(tables, stmts[i])
    IN /\ callers[c].pc = IF i = 1 THEN "create_1" ELSE "create_2"
       /\ i <= Len(stmts)
       /\ tables' = res.tables
       /\ callers' = [callers EXCEPT ![c].raised = res.raised,
                                     ![c].pc = IF res.raised # "none" THEN "raised"
                                               ELSE IF i < Len(stmts) THEN "create_2"
                                               ELSE "proceed"]
       /\ UNCHANGED <<q, workers, calc, cli, config, validators, relayers, sqlite_sequence,
                      val_index, slot_sync_committee, slots, archive_relayer_slots,
                      archive_validator_slots, last, written, relFolds, valFolds, kills,
                      running>>

\* the process of caller c dies between the two CREATE TABLE of create_archive_db
CallerKilled(c) ==
    /\ callers[c].pc = "create_2"
    /\ kills < MaxKills
    /\ kills' = kills + 1
    /\ callers' = [callers EXCEPT ![c].pc = "killed"]
    /\ UNCHANGED <<q, workers, calc, cli, config, validators, relayers, sqlite_sequence,
                   val_index, slot_sync_committee, slots, tables, archive_relayer_slots,
                   archive_validator_slots, last, written, relFolds, valFolds, running>>

\* caller c runs the rest of its function, its tables being there
Proceed(c) ==
    /\ callers[c].pc = "proceed"
    /\ IF callers[c].op = "prune_db"
       THEN /\ PruneStep(CallerKeep, "returned")
            /\ UNCHANGED val_index
       ELSE /\ insert_sync_committee_performance(Max(DOMAIN slots \cup {1}),
                                                 CallerPerformance)
            /\ UNCHANGED <<q, workers, calc, cli, config, validators, relayers,
                           sqlite_sequence, val_index, slots, archive_relayer_slots,
                           archive_validator_slots, written, relFolds, valFolds>>
    /\ callers' = [callers EXCEPT ![c].raised = last'.raised,
                                  ![c].pc = IF last'.raised = "none" THEN "returned"
                                            ELSE "raised"]
    /\ UNCHANGED <<kills, running>>

InitSchema ==
    /\ config = [keys |-> SyncKeys, relay_config |-> RelayConfig]
    /\ validators = insert_validators({}, 0).rows
    /\ relayers = insert_relayers({}, 0).rows
    /\ sqlite_sequence = [validators |-> insert_validators({}, 0).seq,
                          relayers   |-> insert_relayers({}, 0).seq]
    /\ cli = NoCall
    /\ val_index = NoIndexColumn
    /\ slot_sync_committee = {}
    /\ slots = << >>
    /\ tables = {}
    /\ archive_relayer_slots = << >>
    /\ archive_validator_slots = << >>
    /\ last = [op |-> "initialise_db", raised |-> "none"]
    /\ written = [n \in SlotNumbers |-> << >>]
    /\ relFolds = [n \in SlotNumbers |-> 0]
    /\ valFolds = [n \in SlotNumbers |-> 0]
    /\ kills = 0
    /\ running = NotRunning
    /\ callers = [c \in Callers |-> Idle]
    /\ q = << >>
    /\ workers = << >>
    /\ calc = NotCalculating

\* the feed beside the callers: the next slot, proposed by a tracked validator
\* through the first configured relay
CallerInserts ==
    /\ Cardinality(DOMAIN slots) < MaxSlot
    /\ insert_new_slot(Cardinality(DOMAIN slots) + 1, "v1", config.relay_config[1][1],
                       FALSE, FALSE, 1)
    /\ UNCHANGED running

\* the validator indexes are loaded
CallerIndexes ==
    /\ insert_validator_indexes(<< <<"v1", 7>> >>)
    /\ UNCHANGED <<callers, q, workers, calc, cli, config, validators, relayers,
                   sqlite_sequence, slot_sync_committee, slots, tables,
                   archive_relayer_slots, archive_validator_slots, written, relFolds,
                   valFolds, kills, running>>

CallerChecks == \E c \in Callers, op \in {"prune_db", "insert_sync_committee_performance"} :
                    CheckExists(c, op)

CallerCreates == \E c \in Callers, i \in 1..2 : CreateStep(c, i)

CallerDies == \E c \in Callers : CallerKilled(c)

CallerProceeds == \E c \in Callers : Proceed(c)

NextSchema ==
    \/ CallerChecks
    \/ CallerCreates
    \/ CallerDies
    \/ CallerProceeds
    \/ CallerInserts
    \/ CallerIndexes

SpecSchema == InitSchema /\ [][NextSchema]_vars

\* C31 (as claimed): whichever way the callers of prune_db and of
\* insert_sync_committee_performance interleave, and wherever a creation was cut
\* short, no caller gets the "already exists" error of a CREATE TABLE, and a
\* caller that is past the creation has its tables.
C31_LazyCreationRaceSafe ==
    \A c \in Callers :
        /\ callers[c].raised # "OperationalError"
        /\ callers[c].pc = "proceed" =>
              {CreateStatements(callers[c].op)[i] :
                   i \in 1..Len(CreateStatements(callers[c].op))} \subseteq tables

\* C32: a prune_db(k) that returns on a ledger with rows leaves exactly the rows
\* numbered max - k and above, each as it was; the highest slot stays, so the
\* last_slot of the data object is what it was.
C32_PruneFrame ==
    [][\A k \in KeepLast :
          (/\ PruneDb(k)
           /\ last'.raised = "none"
           /\ DOMAIN slots # {}) =>
             LET kept   == {n \in DOMAIN slots : n >= Max(DOMAIN slots) - k}
                 before == DataObj
                 after  == populate_data_obj(slots', archive_relayer_slots',
                                             archive_validator_slots', tables')
             IN /\ DOMAIN slots' = kept
                /\ \A n \in kept : slots'[n] = slots[n]
                /\ Max(DOMAIN slots') = Max(DOMAIN slots)
                /\ (before.raised = "none" /\ after.raised = "none") =>
                       after.last_slot = before.last_slot]_vars

\* C32 witness: prune_db(1) has returned after removing rows, and two rows are
\* left in the ledger.
C32_Witness ==
    /\ last.op = "prune_db"
    /\ last.raised = "none"
    /\ last.pruned
    /\ last.last_slots = 1
    /\ Cardinality(DOMAIN slots) = 2
    /\ DataObj.raised = "none"

\* the tracked validators that a row with the flag `col` set was ever written for
EverFlagged(col) ==
    {PublicKey(written[w[1]][w[2]].proposer_id) :
        w \in {x \in EverWritten : /\ written[x[1]][x[2]].proposer_id # NULL
                                   /\ written[x[1]][x[2]][col] = 1}}

\* C33 (as claimed): every key of MissedBlockProposals is a validator that
\* missed a block and every key of EmptyBlockProposals one that proposed an
\* empty block, and every value of the two maps is above 0.
C33_OnlyOffendersListed ==
    \A m \in {"MissedBlockProposals", "EmptyBlockProposals"} :
        LET got == MetricNow(m)
            col == IF m = "MissedBlockProposals" THEN "missed" ELSE "empty"
        IN got.raised = "none" =>
              \A key \in DOMAIN got.map :
                  /\ got.map[key] # NULL
                  /\ got.map[key] > 0
                  /\ key \in EverFlagged(col)

\* ------------------------------------------- calculate_rewards_parallel
\* num_workers (50 in the source), scaled down
NumWorkers == 2

\* the largest number of transactions of a block
MaxTransactions == 3

\* the hashes a block's transaction list is a prefix of
TxHashes == <<"0xa1", "0xa2", "0xa3", "0xa4", "0xa5">>

\* the signal that stops a worker
StopSignal == ""

\* fewer stop signals than workers
StopSignals_OneShort == NumWorkers - 1

\* range(num_workers * 2)
StopSignals == NumWorkers * 2

\* calc_tx_fee of the receipt of tx_hash
calc_tx_fee(tx_hash) == CHOOSE i \in DOMAIN TxHashes : TxHashes[i] = tx_hash

\* what a receipt request of a worker can end in: a receipt, a
\* requests.exceptions.RequestException (connection, timeout, HTTP status), and
\* a response that is no receipt (an "error" member instead of "result", or a
\* null result), on which tx_rec['result'] or calc_tx_fee raises KeyError or
\* TypeError
ReceiptOutcomes == {"receipt", "RequestException", "no receipt"}

\* sequence of n copies of x
Repeat(x, n) == [i \in 1..n |-> x]

RECURSIVE Extend(_, _)
\* results.extend(worker.results) for the workers 1..n, in order
Extend(ws, n) == IF n = 0 THEN << >> ELSE Extend(ws, n - 1) \o ws[n].results

\* lines 252-281: the block request; on success the queue is filled with the
\* transaction hashes and then the stop signals, before any worker exists
Calculate(n, block_request, burned_eth) ==
    /\ calc.pc = "not called"
    /\ IF block_request = "RequestException"
       THEN /\ calc' = [pc |-> "returned", transactions |-> << >>, started |-> 0,
                        joined |-> 0, results |-> << >>, burned_eth |-> 0,
                        returned |-> -1]
            /\ UNCHANGED <<q, workers>>
       ELSE /\ q' = SubSeq(TxHashes, 1, n) \o Repeat(StopSignal, StopSignals)
            /\ workers' = [w \in 1..NumWorkers |->
                             [pc |-> "not started", tx_hash |-> StopSignal,
                              results |-> << >>]]
            /\ calc' = [pc |-> "starting", transactions |-> SubSeq(TxHashes, 1, n),
                        started |-> 0, joined |-> 0, results |-> << >>,
                        burned_eth |-> burned_eth, returned |-> 0]
    /\ UNCHANGED <<callers, cli, config, validators, relayers, sqlite_sequence,
                   val_index, slot_sync_committee, slots, tables, archive_relayer_slots,
                   archive_validator_slots, last, written, relFolds, valFolds, kills,
                   running>>

\* lines 287-290: the next worker is created and started
StartWorker ==
    /\ calc.pc = "starting"
    /\ workers' = [workers EXCEPT ![calc.started + 1].pc = "get"]
    /\ calc' = [calc EXCEPT !.started = @ + 1,
                            !.pc = IF calc.started + 1 = NumWorkers THEN "joining"
                                   ELSE "starting"]
    /\ UNCHANGED <<callers, q, cli, config, validators, relayers, sqlite_sequence,
                   val_index, slot_sync_committee, slots, tables, archive_relayer_slots,
                   archive_validator_slots, last, written, relFolds, valFolds, kills,
                   running>>

\* lines 218-224: worker w takes the head of the queue, waiting while the queue
\* is empty; the empty string ends its loop
Get(w) ==
    /\ w \in DOMAIN workers
    /\ workers[w].pc = "get"
    /\ q # << >>
    /\ q' = Tail(q)
    /\ workers' = [workers EXCEPT ![w].tx_hash = Head(q),
                                  ![w].pc = IF Head(q) = StopSignal THEN "stopped"
                                            ELSE "request"]
    /\ UNCHANGED <<callers, calc, cli, config, validators, relayers, sqlite_sequence,
                   val_index, slot_sync_committee, slots, tables, archive_relayer_slots,
                   archive_validator_slots, last, written, relFolds, valFolds, kills,
                   running>>

\* lines 225-249: worker w requests the receipt of its transaction; an entry of
\* results is written here with the hash it is for, the source keeps the fee only
Request(w, outcome) ==
    /\ w \in DOMAIN workers
    /\ workers[w].pc = "request"
    /\ workers' =
          [workers EXCEPT ![w] =
              IF outcome = "receipt"
              THEN [@ EXCEPT !.pc = "get",
                             !.results = Append(@, [tx_hash |-> workers[w].tx_hash,
                                                    fee |-> calc_tx_fee(workers[w].tx_hash)])]
              ELSE IF outcome = "RequestException"
              THEN [@ EXCEPT !.pc = "get",
                             !.results = Append(@, [tx_hash |-> workers[w].tx_hash,
                                                    fee |-> 0])]
              ELSE [@ EXCEPT !.pc = "died"]]
    /\ UNCHANGED <<callers, q, calc, cli, config, validators, relayers, sqlite_sequence,
                   val_index, slot_sync_committee, slots, tables, archive_relayer_slots,
                   archive_validator_slots, last, written, relFolds, valFolds, kills,
                   running>>

\* lines 293-294: worker.join() of the next worker returns once its thread ended
Join ==
    /\ calc.pc = "joining"
    /\ calc.joined < NumWorkers
    /\ workers[calc.joined + 1].pc \in {"stopped", "died"}
    /\ calc' = [calc EXCEPT !.joined = @ + 1]
    /\ UNCHANGED <<callers, q, workers, cli, config, validators, relayers,
                   sqlite_sequence, val_index, slot_sync_committee, slots, tables,
                   archive_relayer_slots, archive_validator_slots, last, written,
                   relFolds, valFolds, kills, running>>

\* lines 297-311: the results are collected and summed; the value returned is
\* `returned` / 10^18
Return ==
    /\ calc.pc = "joining"
    /\ calc.joined = NumWorkers
    /\ LET results == Extend(workers, NumWorkers)
       IN calc' = [calc EXCEPT
                      !.pc = "returned",
                      !.results = results,
                      !.returned = Sum([i \in DOMAIN results |-> results[i].fee],
                                       DOMAIN results) - calc.burned_eth]
    /\ UNCHANGED <<callers, q, workers, cli, config, validators, relayers,
                   sqlite_sequence, val_index, slot_sync_committee, slots, tables,
                   archive_relayer_slots, archive_validator_slots, last, written,
                   relFolds, valFolds, kills, running>>

CalculateRewardsParallel ==
    \E n \in 0..MaxTransactions, block_request \in {"block", "RequestException"},
       burned_eth \in {0, 1} : Calculate(n, block_request, burned_eth)

WorkerGets == \E w \in DOMAIN workers : Get(w)

WorkerRequests == \E w \in DOMAIN workers, outcome \in ReceiptOutcomes : Request(w, outcome)

NextRewards ==
    \/ CalculateRewardsParallel
    \/ StartWorker
    \/ WorkerGets
    \/ WorkerRequests
    \/ Join
    \/ Return

SpecRewards == Init /\ [][NextRewards]_vars

\* every thread that can take a step is scheduled in the end
SpecRewardsFair ==
    /\ Init
    /\ [][NextRewards]_vars
    /\ WF_vars(CalculateRewardsParallel)
    /\ WF_vars(StartWorker)
    /\ WF_vars(Join)
    /\ WF_vars(Return)
    /\ \A w \in 1..NumWorkers : WF_vars(Get(w))
    /\ \A w \in 1..NumWorkers : WF_vars(\E outcome \in ReceiptOutcomes : Request(w, outcome))

\* C34: calculate_rewards_parallel returns, whatever the number of
\* transactions and the outcome of each receipt request: every worker ends, by
\* taking a stop signal when each of its requests gave a receipt or failed as a
\* request, and the joins complete.
C34_Terminates ==
    <>(/\ calc.pc = "returned"
       /\ \A w \in DOMAIN workers :
             \/ workers[w].pc = "stopped" /\ workers[w].tx_hash = StopSignal
             \/ workers[w].pc = "died")

\* C34 witness: the call has returned for a block of more transactions than
\* workers, a request having failed, and every worker took a stop signal.
C34_Witness ==
    /\ calc.pc = "returned"
    /\ Len(calc.transactions) > NumWorkers
    /\ \A w \in DOMAIN workers : workers[w].pc = "stopped"
    /\ \E i \in DOMAIN calc.results : calc.results[i].fee = 0

\* the number of positions of the sequence sq that hold x
Occurrences(sq, x) == Cardinality({i \in DOMAIN sq : sq[i] = x})

\* where the transaction tx_hash is: in the queue, in the hands of a worker, or
\* in the results of a worker
Holders(tx_hash) ==
    Occurrences(q, tx_hash)
    + Cardinality({w \in DOMAIN workers :
                      workers[w].pc = "request" /\ workers[w].tx_hash = tx_hash})
    + Sum([w \in DOMAIN workers |->
              Cardinality({i \in DOMAIN workers[w].results :
                              workers[w].results[i].tx_hash = tx_hash})],
          DOMAIN workers)

\* C35 (as claimed): once the queue is filled, every transaction of the block is
\* at one place, the queue, one worker's hands or one entry of a worker's
\* results; no transaction is in the queue when a worker has stopped; and the
\* results collected at the return have one entry for each transaction, its fee
\* or 0, and as many entries as the block has transactions.
C35_EveryTransactionCountedOnce ==
    workers # << >> =>
       LET txs == {calc.transactions[i] : i \in DOMAIN calc.transactions}
       IN /\ \A tx_hash \in txs : Holders(tx_hash) = 1
          /\ (\E w \in DOMAIN workers : workers[w].pc \in {"stopped", "died"}) =>
                \A tx_hash \in txs : Occurrences(q, tx_hash) = 0
          /\ calc.pc = "returned" =>
                /\ Len(calc.results) = Len(calc.transactions)
                /\ \A tx_hash \in txs :
                      /\ Cardinality({i \in DOMAIN calc.results :
                                         calc.results[i].tx_hash = tx_hash}) = 1
                      /\ \A i \in DOMAIN calc.results :
                            calc.results[i].tx_hash = tx_hash =>
                               calc.results[i].fee \in {calc_tx_fee(tx_hash), 0}

\* the rows ever written for the relay called name whose proposer is not tracked
EverUntracked(name) ==
    {w \in EverWritten :
        /\ RelayName(written[w[1]][w[2]].relay_id) = name
        /\ written[w[1]][w[2]].proposer_id = NULL}

\* C36 (as claimed): the metrics engine reports, for every relay, a
\* RelayBlocksProposed that is at most its TotalRelayBlocksProposed, and the
\* two are equal exactly when no slot of an untracked proposer was inserted for
\* the relay (a relay without a key counting 0).
C36_TrackedAtMostTotal ==
    LET tracked == MetricNow("RelayBlocksProposed")
        total   == MetricNow("TotalRelayBlocksProposed")
    IN /\ tracked.raised = "none"
       /\ total.raised = "none"
       /\ \A name \in RelayerNames :
             LET a == Reported(tracked.map, name)
                 b == Reported(total.map, name)
             IN /\ a # NULL
                /\ b # NULL
                /\ a <= b
                /\ a = b <=> EverUntracked(name) = {}

\* the sum of the values of a map, each of them a number
MapTotal(map) == Sum(map, DOMAIN map)

\* the rows ever written whose proposer is a tracked validator
EverTracked == {w \in EverWritten : written[w[1]][w[2]].proposer_id # NULL}

\* C37: when the metrics engine returns, the values of RelayBlocksProposed and
\* the values of ValidatorBlocksProposed are numbers and add up to the same
\* total; with distinct slot numbers inserted that total is the number of slots
\* inserted for tracked validators.
C37_TrackedTotalsAgree ==
    LET byRelay     == MetricNow("RelayBlocksProposed")
        byValidator == MetricNow("ValidatorBlocksProposed")
    IN /\ byRelay.raised = byValidator.raised
       /\ byRelay.raised = "none" =>
             /\ \A k \in DOMAIN byRelay.map : byRelay.map[k] # NULL
             /\ \A k \in DOMAIN byValidator.map : byValidator.map[k] # NULL
             /\ MapTotal(byRelay.map) = MapTotal(byValidator.map)
             /\ DistinctSlots => MapTotal(byRelay.map) = Cardinality(EverTracked)

\* C37 witness: slots of tracked validators are in the ledger and in the
\* rollup, through two relays, and the engine returns.
C37_Witness ==
    /\ MetricNow("RelayBlocksProposed").raised = "none"
    /\ Cardinality(DOMAIN MetricNow("RelayBlocksProposed").map) = 2
    /\ DOMAIN archive_validator_slots # {}
    /\ \E n \in DOMAIN slots : slots[n].proposer_id # NULL
====
